---- MODULE Spec2Model ----
(***************************************************************************)
(* Document model of the typewriter (src/src/Typewriter.ts): the sequence  *)
(* of placed characters, the cursor, the direction mode, and the           *)
(* export / import serialisation; and the 3D scene                         *)
(* (src/src/TypewriterScene3D.ts): type bars, keys, timers, paper and pen. *)
(*                                                                         *)
(* A string is a sequence of UTF-16 code units; a code unit is written as  *)
(* a one-character TLA+ string, except "alef" (U+05D0), which has no ASCII *)
(* spelling, and "hi", "lo" (U+D83D, U+DE00), the two surrogate code units  *)
(* of U+1F600.                                                             *)
(***************************************************************************)
EXTENDS Integers, Sequences, FiniteSets, TLC

\* ------------------------------------------------------------------ bounds
MaxChars == 2
MaxLines == 1
MaxDrag == 1

\* ------------------------------------------------- Cursor.ts (not in src/)
\* Cursor.ts is imported by Typewriter.ts but is not part of the sources at
\* hand; its geometry and moves follow the Cursor/Margin Engine contract.
LetterWidth == 2
LineHeight == 3
LeftMargin == 2
RightMargin == 13
OriginY == 1

getLetterWidth == LetterWidth
getLeftMargin == LeftMargin
getRightMargin == RightMargin

Vector(x, y) == [x |-> x, y |-> y]

initialPosVec == Vector(LeftMargin, OriginY)

\* cursor.update(vec): the tracked position becomes vec
CursorUpdate(pos, vec) == vec
\* cursor.moveright(): one character-width to the right
CursorMoveright(pos) == CursorUpdate(pos, Vector(pos.x + LetterWidth, pos.y))
\* cursor.moveleft(): one character-width to the left
CursorMoveleft(pos) == CursorUpdate(pos, Vector(pos.x - LetterWidth, pos.y))
\* cursor.newline(): left margin, one line-height down
CursorNewline(pos) == CursorUpdate(pos, Vector(LeftMargin, pos.y + LineHeight))
\* cursor.newlineRTL(): right margin, one line-height down
CursorNewlineRTL(pos) == CursorUpdate(pos, Vector(RightMargin, pos.y + LineHeight))
\* cursor.reset(): back to the configured origin
CursorReset(pos) == initialPosVec

\* new Character(typewriter, s, x, y): the record {s, x, y}
Character(s, x, y) == [x |-> x, y |-> y, s |-> s]

\* ------------------------------------------------------------ code units
charCodeAt0 ==
  [c \in {"a", "b", "\"", "\\", "alef", "hi", "lo"} |->
     CASE c = "a" -> 97
       [] c = "b" -> 98
       [] c = "\"" -> 34
       [] c = "\\" -> 92
       [] c = "alef" -> 1488
       [] c = "hi" -> 55357
       [] c = "lo" -> 56832]

isHebrewChar(char) ==
  LET code == charCodeAt0[char] IN code >= 1424 /\ code <= 1535

\* ------------------------------------------------------- optional values
\* A JavaScript argument that may be undefined.
Undefined == [def |-> FALSE]
Some(v) == [def |-> TRUE, v |-> v]
\* s of a record created with an undefined string (JSON.stringify drops it)
UndefinedStr == <<"undefined">>

\* ------------------------------------------------------- JSON.stringify
Digits == <<"0", "1", "2", "3", "4", "5", "6", "7", "8", "9">>

RECURSIVE NatToStr(_)
NatToStr(n) ==
  IF n < 10 THEN <<Digits[n + 1]>>
  ELSE NatToStr(n \div 10) \o <<Digits[(n % 10) + 1]>>

\* a number as JSON.stringify writes it (integers only)
NumToStr(n) == IF n < 0 THEN <<"-">> \o NatToStr(0 - n) ELSE NatToStr(n)

\* surrogate code units: a high one followed by a low one is one character
IsHighSurrogate(c) == charCodeAt0[c] >= 55296 /\ charCodeAt0[c] <= 56319
IsLowSurrogate(c) == charCodeAt0[c] >= 56320 /\ charCodeAt0[c] <= 57343

HexDigits == Digits \o <<"a", "b", "c", "d", "e", "f">>

\* \uXXXX for a code unit, in lower-case hexadecimal
UnicodeEscape(c) ==
  LET n == charCodeAt0[c] IN
  <<"\\", "u", HexDigits[((n \div 4096) % 16) + 1],
    HexDigits[((n \div 256) % 16) + 1], HexDigits[((n \div 16) % 16) + 1],
    HexDigits[(n % 16) + 1]>>

RECURSIVE EscapeStr(_)
EscapeStr(s) ==
  IF s = <<>> THEN <<>>
  ELSE IF Head(s) \in {"\"", "\\"} THEN <<"\\", Head(s)>> \o EscapeStr(Tail(s))
  ELSE IF IsHighSurrogate(Head(s)) /\ Len(s) > 1 /\ IsLowSurrogate(s[2])
       THEN <<s[1], s[2]>> \o EscapeStr(Tail(Tail(s)))
  ELSE IF IsHighSurrogate(Head(s)) \/ IsLowSurrogate(Head(s))
       THEN UnicodeEscape(Head(s)) \o EscapeStr(Tail(s))
  ELSE <<Head(s)>> \o EscapeStr(Tail(s))

\* a string as JSON.stringify writes it: quoted, with " and \ escaped and a
\* surrogate that has no partner written as \uXXXX
QuoteStr(s) == <<"\"">> \o EscapeStr(s) \o <<"\"">>

\* one mapped record ({ x, y, s }) as JSON.stringify writes it; a property
\* whose value is undefined is left out
StringifyRecord(ch) ==
  <<"{", "\"", "x", "\"", ":">> \o NumToStr(ch.x)
  \o <<",", "\"", "y", "\"", ":">> \o NumToStr(ch.y)
  \o (IF ch.s = UndefinedStr THEN <<>>
      ELSE <<",", "\"", "s", "\"", ":">> \o QuoteStr(ch.s))
  \o <<"}">>

RECURSIVE StringifyRecords(_)
StringifyRecords(cs) ==
  IF cs = <<>> THEN <<>>
  ELSE IF Len(cs) = 1 THEN StringifyRecord(cs[1])
  ELSE StringifyRecord(Head(cs)) \o <<",">> \o StringifyRecords(Tail(cs))

\* export(): JSON.stringify(this.chars.map(({ x, y, s }) => ({ x, y, s })))
Export(cs) == <<"[">> \o StringifyRecords(cs) \o <<"]">>

\* ------------------------------------------------------------ JSON.parse
\* A parsed value is tagged with its JSON type.  The texts parsed here carry
\* no white space, no fraction or exponent, and no escape other than \",
\* \\ and \uXXXX for a code unit named in charCodeAt0 (the escapes Export
\* writes); anything else is a SyntaxError.
JNull == [t |-> "null"]
JBool(b) == [t |-> "bool", b |-> b]
JNum(n) == [t |-> "num", n |-> n]
JStr(s) == [t |-> "str", s |-> s]
JArr(a) == [t |-> "arr", a |-> a]
JObj(o) == [t |-> "obj", o |-> o]

Parsed(v, i) == [ok |-> TRUE, v |-> v, i |-> i]
SyntaxError == [ok |-> FALSE, v |-> JNull, i |-> 0]

At(str, i) == IF i >= 1 /\ i <= Len(str) THEN str[i] ELSE "EOF"
IsDigit(c) == c \in {Digits[d] : d \in 1..10}
DigitVal(c) == (CHOOSE d \in 1..10 : Digits[d] = c) - 1
Matches(str, i, word) ==
  /\ i + Len(word) - 1 <= Len(str)
  /\ \A k \in 1..Len(word) : str[i + k - 1] = word[k]

RECURSIVE ParseDigits(_, _, _)
ParseDigits(str, i, acc) ==
  IF IsDigit(At(str, i)) THEN ParseDigits(str, i + 1, acc * 10 + DigitVal(str[i]))
  ELSE Parsed(JNum(acc), i)

\* an unsigned integer: a lone 0, or a digit 1-9 followed by digits
ParseNat(str, i) ==
  IF ~IsDigit(At(str, i)) THEN SyntaxError
  ELSE IF str[i] = "0" THEN Parsed(JNum(0), i + 1)
  ELSE ParseDigits(str, i, 0)

ParseNumber(str, i) ==
  IF At(str, i) = "-"
  THEN LET r == ParseNat(str, i + 1) IN
       IF r.ok THEN Parsed(JNum(0 - r.v.n), r.i) ELSE SyntaxError
  ELSE ParseNat(str, i)

IsHexDigit(c) == c \in {HexDigits[d] : d \in 1..16}
HexVal(c) == (CHOOSE d \in 1..16 : HexDigits[d] = c) - 1

\* the code unit written as \uXXXX at str[i..i+5]
ParseUnicodeEscape(str, i) ==
  IF \A k \in 2..5 : IsHexDigit(At(str, i + k))
  THEN LET n == HexVal(str[i + 2]) * 4096 + HexVal(str[i + 3]) * 256
                + HexVal(str[i + 4]) * 16 + HexVal(str[i + 5])
           units == {c \in DOMAIN charCodeAt0 : charCodeAt0[c] = n}
       IN  IF units = {} THEN SyntaxError
           ELSE Parsed(JStr(<<CHOOSE c \in units : TRUE>>), i + 6)
  ELSE SyntaxError

\* the characters of a string, from just after the opening quote
RECURSIVE ParseChars(_, _, _)
ParseChars(str, i, acc) ==
  LET c == At(str, i) IN
  IF c = "EOF" THEN SyntaxError
  ELSE IF c = "\"" THEN Parsed(JStr(acc), i + 1)
  ELSE IF c = "\\"
       THEN IF At(str, i + 1) \in {"\"", "\\"}
            THEN ParseChars(str, i + 2, Append(acc, str[i + 1]))
            ELSE IF At(str, i + 1) = "u"
            THEN LET u == ParseUnicodeEscape(str, i) IN
                 IF u.ok THEN ParseChars(str, u.i, acc \o u.v.s) ELSE SyntaxError
            ELSE SyntaxError
  ELSE ParseChars(str, i + 1, Append(acc, c))

ParseString(str, i) ==
  IF At(str, i) = "\"" THEN ParseChars(str, i + 1, <<>>) ELSE SyntaxError

RECURSIVE ParseValue(_, _)
RECURSIVE ParseElements(_, _, _)
RECURSIVE ParseMembers(_, _, _)

\* the elements of an array, from the first element on
ParseElements(str, i, acc) ==
  LET r == ParseValue(str, i) IN
  IF ~r.ok THEN SyntaxError
  ELSE IF At(str, r.i) = "," THEN ParseElements(str, r.i + 1, Append(acc, r.v))
  ELSE IF At(str, r.i) = "]" THEN Parsed(JArr(Append(acc, r.v)), r.i + 1)
  ELSE SyntaxError

\* the members of an object, from the first key on
ParseMembers(str, i, acc) ==
  LET k == ParseString(str, i) IN
  IF ~k.ok \/ At(str, k.i) # ":" THEN SyntaxError
  ELSE LET r == ParseValue(str, k.i + 1)
           m == [k |-> k.v.s, v |-> r.v]
       IN  IF ~r.ok THEN SyntaxError
           ELSE IF At(str, r.i) = "," THEN ParseMembers(str, r.i + 1, Append(acc, m))
           ELSE IF At(str, r.i) = "}" THEN Parsed(JObj(Append(acc, m)), r.i + 1)
           ELSE SyntaxError

ParseValue(str, i) ==
  LET c == At(str, i) IN
  IF c = "[" THEN (IF At(str, i + 1) = "]" THEN Parsed(JArr(<<>>), i + 2)
                   ELSE ParseElements(str, i + 1, <<>>))
  ELSE IF c = "{" THEN (IF At(str, i + 1) = "}" THEN Parsed(JObj(<<>>), i + 2)
                        ELSE ParseMembers(str, i + 1, <<>>))
  ELSE IF c = "\"" THEN ParseString(str, i)
  ELSE IF c = "-" \/ IsDigit(c) THEN ParseNumber(str, i)
  ELSE IF Matches(str, i, <<"n", "u", "l", "l">>) THEN Parsed(JNull, i + 4)
  ELSE IF Matches(str, i, <<"t", "r", "u", "e">>) THEN Parsed(JBool(TRUE), i + 4)
  ELSE IF Matches(str, i, <<"f", "a", "l", "s", "e">>) THEN Parsed(JBool(FALSE), i + 5)
  ELSE SyntaxError

\* JSON.parse(str): the whole text must be one value
JSONparse(str) ==
  LET r == ParseValue(str, 1) IN
  IF r.ok /\ r.i = Len(str) + 1 THEN r ELSE SyntaxError

\* value.key for a parsed value: the last member named key of an object,
\* undefined for a missing member and for every other kind of value
GetProp(val, key) ==
  IF val.t # "obj" THEN Undefined
  ELSE LET hits == {j \in 1..Len(val.o) : val.o[j].k = key} IN
       IF hits = {} THEN Undefined
       ELSE Some(val.o[CHOOSE j \in hits : \A h \in hits : h <= j].v)

\* ------------------------------------------------------------ TypeWriter
\* The fields of the TypeWriter instance; cursor is cursor.position.
VARIABLES chars, cursor, isRTLMode, canvasOffset, containerScale,
          op,   \* the last call: its name, the text typed, whether it
                \* completed, whether fresh held and the document was empty
                \* when it was made, and whether it was import(export())
          fresh,       \* the document was built by addCharacter(text) and
                       \* handleNewline() alone, from a new TypeWriter
          typedHebrew  \* the character typed last (without coordinates) was Hebrew

vars ==
  <<chars, cursor, isRTLMode, canvasOffset, containerScale, op, fresh, typedHebrew>>

\* the instance as one record, for the operators below
This ==
  [chars |-> chars, cursor |-> cursor, isRTLMode |-> isRTLMode,
   canvasOffset |-> canvasOffset, containerScale |-> containerScale]

Returned(tw) == [ok |-> TRUE, tw |-> tw]
Thrown(tw) == [ok |-> FALSE, tw |-> tw]

\* TypeChar with the seam one letter-width wide instead of two
TypeCharNarrowSeam(tw, char) ==
  LET isRTL == isHebrewChar(char)
      wasRTL == tw.isRTLMode
      c1 == IF isRTL /\ ~wasRTL /\ tw.cursor.x <= getLeftMargin + getLetterWidth
            THEN CursorUpdate(tw.cursor, Vector(getRightMargin, tw.cursor.y))
            ELSE tw.cursor
      c2 == IF ~isRTL /\ wasRTL /\ c1.x >= getRightMargin - getLetterWidth
            THEN CursorUpdate(c1, Vector(getLeftMargin, c1.y))
            ELSE c1
  IN  [tw EXCEPT !.isRTLMode = isRTL,
                 !.chars = Append(tw.chars, Character(<<char>>, c2.x, c2.y)),
                 !.cursor = IF isRTL THEN CursorMoveleft(c2) ELSE CursorMoveright(c2)]

\* the body of the loop of addCharacter for the code unit char
TypeChar(tw, char) ==
  LET isRTL == isHebrewChar(char)
      wasRTL == tw.isRTLMode
      leftMargin == getLeftMargin
      letterWidth == getLetterWidth
      c1 == IF isRTL /\ ~wasRTL /\ tw.cursor.x <= leftMargin + letterWidth * 2
            THEN CursorUpdate(tw.cursor, Vector(getRightMargin, tw.cursor.y))
            ELSE tw.cursor
      rightMargin == getRightMargin
      c2 == IF ~isRTL /\ wasRTL /\ c1.x >= rightMargin - letterWidth * 2
            THEN CursorUpdate(c1, Vector(leftMargin, c1.y))
            ELSE c1
  IN  [tw EXCEPT !.isRTLMode = isRTL,
                 !.chars = Append(tw.chars, Character(<<char>>, c2.x, c2.y)),
                 !.cursor = IF isRTL THEN CursorMoveleft(c2) ELSE CursorMoveright(c2)]

\* the loop of addCharacter over the code units of text
RECURSIVE TypeText(_, _)
TypeText(tw, text) ==
  IF text = <<>> THEN tw ELSE TypeText(TypeChar(tw, Head(text)), Tail(text))

\* AddCharacter with unshift in place of push on the coordinate-less path
AddCharacterUnshift(tw, s, x, y) ==
  IF x.def /\ y.def
  THEN Returned([tw EXCEPT
         !.chars = Append(tw.chars,
                          Character(IF s.def THEN s.v ELSE UndefinedStr, x.v, y.v)),
         !.cursor = CursorUpdate(tw.cursor, Vector(x.v, y.v))])
  ELSE IF ~s.def THEN Thrown(tw)
  ELSE LET typed == TypeText([tw EXCEPT !.chars = <<>>], s.v) IN
       Returned([typed EXCEPT !.chars = typed.chars \o tw.chars])

\* AddCharacter whose coordinate path sets the direction mode from the text
AddCharacterDirected(tw, s, x, y) ==
  IF x.def /\ y.def
  THEN Returned([tw EXCEPT
         !.chars = Append(tw.chars,
                          Character(IF s.def THEN s.v ELSE UndefinedStr, x.v, y.v)),
         !.cursor = CursorUpdate(tw.cursor, Vector(x.v, y.v)),
         !.isRTLMode = s.def /\ s.v # <<>> /\ isHebrewChar(s.v[1])])
  ELSE IF ~s.def THEN Thrown(tw)
  ELSE Returned(TypeText(tw, s.v))

\* addCharacter(_chars, _x, _y); an argument may be undefined
AddCharacter(tw, s, x, y) ==
  IF x.def /\ y.def
  THEN Returned([tw EXCEPT
         !.chars = Append(tw.chars,
                          Character(IF s.def THEN s.v ELSE UndefinedStr, x.v, y.v)),
         !.cursor = CursorUpdate(tw.cursor, Vector(x.v, y.v))])
  ELSE IF ~s.def THEN Thrown(tw)   \* _chars.length of undefined: TypeError
  ELSE Returned(TypeText(tw, s.v))

\* HandleNewline that ignores the direction mode
HandleNewlineLeft(tw) == [tw EXCEPT !.cursor = CursorNewline(tw.cursor)]

\* handleNewline()
HandleNewline(tw) ==
  [tw EXCEPT !.cursor = IF tw.isRTLMode THEN CursorNewlineRTL(tw.cursor)
                        ELSE CursorNewline(tw.cursor)]

\* reposition that drops the characters it should draw again
RepositionForgetting(tw, vec) ==
  IF vec.def
  THEN [tw EXCEPT !.chars = <<>>,
                  !.canvasOffset = Vector(tw.canvasOffset.x + vec.v.x,
                                          tw.canvasOffset.y + vec.v.y)]
  ELSE [tw EXCEPT !.chars = <<>>]

\* reposition(vec): only a Vector argument moves the offset; the canvases
\* are re-initialised and every character redrawn
Reposition(tw, vec) ==
  IF vec.def
  THEN [tw EXCEPT !.canvasOffset = Vector(tw.canvasOffset.x + vec.v.x,
                                          tw.canvasOffset.y + vec.v.y)]
  ELSE tw

\* redraw(): every character of the document is drawn, in order
Redraw(tw) == tw.chars

\* the wait of debouncedReposition, in milliseconds
debounceWait == 100

\* a debounced function whose call leaves a pending timer running
debounceCallNoRestart(pending) ==
  IF pending.def THEN pending ELSE Some(debounceWait)

\* a call of a debounced function: the pending timer, if any, is cleared
\* and one of the full wait is set; the function runs when a timer runs
debounceCall(pending) == Some(debounceWait)

\* Reset that leaves the drag offset in place
ResetKeepOffset(tw) ==
  Reposition([tw EXCEPT !.chars = <<>>,
                        !.cursor = CursorReset(tw.cursor),
                        !.containerScale = 1], Undefined)

\* reset()
Reset(tw) ==
  Reposition([tw EXCEPT !.chars = <<>>,
                        !.cursor = CursorReset(tw.cursor),
                        !.canvasOffset = Vector(0, 0),
                        !.containerScale = 1], Undefined)

\* the string or number handed to addCharacter for a destructured property
ArgStr(p) == IF p.def THEN Some(p.v.s) ELSE Undefined
ArgNum(p) == IF p.def THEN Some(p.v.n) ELSE Undefined

\* Replay that types each entry at the cursor instead of placing it
RECURSIVE ReplayTyped(_, _)
ReplayTyped(tw, entries) ==
  IF entries = <<>> THEN Returned(tw)
  ELSE LET e == Head(entries) IN
       IF e.t = "null" THEN Thrown(tw)
       ELSE LET r == AddCharacter(tw, ArgStr(GetProp(e, <<"s">>)), Undefined, Undefined)
            IN  IF r.ok THEN ReplayTyped(r.tw, Tail(entries)) ELSE r

\* for (const { s, x, y } of chars) this.addCharacter(s, x, y): stops at the
\* first entry that throws (destructuring null, or addCharacter throwing)
RECURSIVE Replay(_, _)
Replay(tw, entries) ==
  IF entries = <<>> THEN Returned(tw)
  ELSE LET e == Head(entries) IN
       IF e.t = "null" THEN Thrown(tw)
       ELSE LET r == AddCharacter(tw, ArgStr(GetProp(e, <<"s">>)),
                                  ArgNum(GetProp(e, <<"x">>)),
                                  ArgNum(GetProp(e, <<"y">>)))
            IN  IF r.ok THEN Replay(r.tw, Tail(entries)) ELSE r

\* Import without the reset() before the replay
ImportNoReset(tw, str) ==
  LET p == JSONparse(str) IN
  IF ~p.ok THEN [tw |-> tw, outcome |-> "parse error"]
  ELSE IF p.v.t # "arr" THEN [tw |-> tw, outcome |-> "not an array"]
  ELSE LET r == Replay(tw, p.v.a) IN
       [tw |-> r.tw, outcome |-> IF r.ok THEN "imported" ELSE "entry threw"]

\* import(str): the instance afterwards and how the call ended; the catch
\* block keeps every exception from the caller
Import(tw, str) ==
  LET p == JSONparse(str) IN
  IF ~p.ok THEN [tw |-> tw, outcome |-> "parse error"]
  ELSE IF p.v.t # "arr" THEN [tw |-> tw, outcome |-> "not an array"]
  ELSE LET r == Replay(Reset(tw), p.v.a) IN
       [tw |-> r.tw, outcome |-> IF r.ok THEN "imported" ELSE "entry threw"]

\* ------------------------------------- TypewriterScene3D.ts (second variant)
\* The 3D scene: type bars, keys, the timers its animations set, and the
\* paper canvas with its pen.  Lengths on the paper are canvas pixels; the
\* carriage target and the key heights are in hundredths of a scene unit;
\* angles are in degrees (Math.PI / 3 is 60, -Math.PI / 6 is -30).  The
\* random imperfections of a glyph (offset under inkSlack pixels, tilt, ink
\* density, ghost strike) are not told apart: a mark is the glyph struck
\* with the pen at (x, y), whatever its imperfections.
canvasWidth == 1024
canvasHeight == 1280
lineHeight == 48
charWidth == 28
clearX == 50
clearY == 80
newlineX == 100
paperRightMargin == 100
paperBottomMargin == 100
scrollPenOffset == 200
backspaceMinX == 50
glyphHeight == 36
inkSlack == 2
splatterReach == 5
carriageStep == 15
carriageMin == -300
strikeAngle == -30
restAngle == 60
strikeDelay == 50
releaseDelay == 100
keyDelay == 80
pressDepth == 8
barEase == 3
carriageEase == 1

\* the characters of typeBars and of keys that the typed characters reach
BarChars == {"A", "B"}
KeyChars == {"A", "B"}

\* char.toUpperCase() for the characters typed
toUpperCase ==
  [c \in {"a", "B", ".", "\n"} |->
     CASE c = "a" -> "A"
       [] c = "B" -> "B"
       [] c = "." -> "."
       [] c = "\n" -> "\n"]

\* a pending setTimeout callback: that of a strike (it prints char for the
\* call id), of the return of a bar, or of the release of a key
Timer(kind, delay, bar, char, id, originalY) ==
  [kind |-> kind, delay |-> delay, rem |-> delay, bar |-> bar, char |-> char,
   id |-> id, originalY |-> originalY]

\* the rows of the canvas a mark may hold ink on
MarkRows(m) ==
  IF m.ink = "glyph" THEN (m.y - inkSlack)..(m.y + glyphHeight + inkSlack)
  ELSE (m.y - splatterReach)..(m.y + splatterReach)

\* clearPaper(): background over the whole canvas, pen to its origin
clearPaper(sc) ==
  [sc EXCEPT !.paper = {}, !.paperPosition = [x |-> clearX, y |-> clearY]]

\* scrollPaper that moves the rows up by one line instead of two
scrollPaperOneLine(sc) ==
  LET kept == {[m EXCEPT !.y = m.y - lineHeight] : m \in sc.paper}
      cleared == clearPaper(sc)
  IN  [cleared EXCEPT
         !.paper = {m \in kept : \E r \in MarkRows(m) :
                      r >= 0 /\ r < canvasHeight - lineHeight * 2},
         !.paperPosition = [x |-> cleared.paperPosition.x,
                            y |-> canvasHeight - scrollPenOffset],
         !.scrolls = @ + 1]

\* scrollPaper(): the image from row lineHeight * 2 down is put back at
\* row 0 of the cleared canvas; the pen goes to a fixed row
scrollPaper(sc) ==
  LET kept == {[m EXCEPT !.y = m.y - lineHeight * 2] : m \in sc.paper}
      cleared == clearPaper(sc)
  IN  [cleared EXCEPT
         !.paper = {m \in kept : \E r \in MarkRows(m) :
                      r >= 0 /\ r < canvasHeight - lineHeight * 2},
         !.paperPosition = [x |-> cleared.paperPosition.x,
                            y |-> canvasHeight - scrollPenOffset],
         !.scrolls = @ + 1]

\* handleNewline of the scene
handleNewline(sc) ==
  LET moved == [sc EXCEPT
                  !.paperPosition = [x |-> newlineX,
                                     y |-> sc.paperPosition.y + lineHeight],
                  !.carriageTargetX = 0]
  IN  IF moved.paperPosition.y > canvasHeight - paperBottomMargin
      THEN scrollPaper(moved)
      ELSE moved

\* printCharacter that does not wrap at the right margin
printCharacterNoWrap(sc, char, id) ==
  IF char = "\n" \/ char = "Enter" THEN handleNewline(sc)
  ELSE LET pen == sc.paperPosition
           drawn == [sc EXCEPT
                       !.paper = @ \cup {[ink |-> "glyph", s |-> char,
                                          x |-> pen.x, y |-> pen.y]},
                       !.printLog = Append(@, [id |-> id, s |-> char,
                                               x |-> pen.x, y |-> pen.y]),
                       !.paperPosition = [x |-> pen.x + charWidth, y |-> pen.y]]
           low == drawn.carriageTargetX - carriageStep
       IN  [drawn EXCEPT
              !.carriageTargetX = IF low < carriageMin THEN carriageMin ELSE low]

\* printCharacter(char); id names the typeCharacter call it prints for
printCharacter(sc, char, id) ==
  IF char = "\n" \/ char = "Enter" THEN handleNewline(sc)
  ELSE LET pen == sc.paperPosition
           drawn == [sc EXCEPT
                       !.paper = @ \cup {[ink |-> "glyph", s |-> char,
                                          x |-> pen.x, y |-> pen.y]},
                       !.printLog = Append(@, [id |-> id, s |-> char,
                                               x |-> pen.x, y |-> pen.y]),
                       !.paperPosition = [x |-> pen.x + charWidth, y |-> pen.y]]
           wrapped == IF drawn.paperPosition.x > canvasWidth - paperRightMargin
                      THEN handleNewline(drawn)
                      ELSE drawn
           low == wrapped.carriageTargetX - carriageStep
       IN  [wrapped EXCEPT
              !.carriageTargetX = IF low < carriageMin THEN carriageMin ELSE low]

\* createInkSplatter(char): two specks at the pen, and a record of them
createInkSplatter(sc, char) ==
  LET pen == sc.paperPosition IN
  [sc EXCEPT
     !.paper = @ \cup {[ink |-> "splatter", s |-> char, x |-> pen.x, y |-> pen.y]},
     !.inkSplatters = Append(@, [x |-> pen.x, y |-> pen.y, character |-> char])]

\* animateKeyPress(key): the key goes down from where it is, and a timer is
\* set to put it back there
animateKeyPress(sc, key) ==
  LET originalY == sc.keys[key] IN
  [sc EXCEPT !.keys[key] = originalY - pressDepth,
             !.timers = Append(@, Timer("key", keyDelay, key, key, 0, originalY))]

\* animateTypeBarStrike that prints at once and sets no print timer
animateTypeBarStrikeAtOnce(sc, bar, char, id) ==
  LET printed == createInkSplatter(printCharacter(sc, char, id), char) IN
  [printed EXCEPT !.typeBars[bar] = [isAnimating |-> TRUE, targetRotation |-> restAngle],
                  !.timers = Append(@, Timer("release", releaseDelay, bar, char, id, 0))]

\* animateTypeBarStrike(typeBar, char)
animateTypeBarStrike(sc, bar, char, id) ==
  [sc EXCEPT !.typeBars[bar] = [isAnimating |-> TRUE, targetRotation |-> strikeAngle],
             !.timers = Append(@, Timer("print", strikeDelay, bar, char, id, 0))]

\* typeCharacter that prints nothing when the bar is busy
typeCharacterDropBusy(sc, char, id) ==
  LET upperChar == toUpperCase[char]
      pressed == IF upperChar \in KeyChars THEN animateKeyPress(sc, upperChar)
                 ELSE IF char \in KeyChars THEN animateKeyPress(sc, char)
                 ELSE sc
  IN  IF upperChar \in BarChars
      THEN (IF pressed.typeBars[upperChar].isAnimating THEN pressed
            ELSE animateTypeBarStrike(pressed, upperChar, char, id))
      ELSE printCharacter(pressed, char, id)

\* typeCharacter without the isAnimating guard
typeCharacterUnguarded(sc, char, id) ==
  LET upperChar == toUpperCase[char]
      pressed == IF upperChar \in KeyChars THEN animateKeyPress(sc, upperChar)
                 ELSE IF char \in KeyChars THEN animateKeyPress(sc, char)
                 ELSE sc
  IN  IF upperChar \in BarChars
      THEN animateTypeBarStrike(pressed, upperChar, char, id)
      ELSE printCharacter(pressed, char, id)

\* typeCharacter with one guard for all the bars: no strike starts while
\* any bar is animating
typeCharacterSharedGuard(sc, char, id) ==
  LET upperChar == toUpperCase[char]
      pressed == IF upperChar \in KeyChars THEN animateKeyPress(sc, upperChar)
                 ELSE IF char \in KeyChars THEN animateKeyPress(sc, char)
                 ELSE sc
  IN  IF upperChar \in BarChars /\ \A b \in BarChars : ~pressed.typeBars[b].isAnimating
      THEN animateTypeBarStrike(pressed, upperChar, char, id)
      ELSE printCharacter(pressed, char, id)

\* typeCharacter(char), the call numbered id
typeCharacter(sc, char, id) ==
  LET upperChar == toUpperCase[char]
      pressed == IF upperChar \in KeyChars THEN animateKeyPress(sc, upperChar)
                 ELSE IF char \in KeyChars THEN animateKeyPress(sc, char)
                 ELSE sc
  IN  IF upperChar \in BarChars /\ ~pressed.typeBars[upperChar].isAnimating
      THEN animateTypeBarStrike(pressed, upperChar, char, id)
      ELSE printCharacter(pressed, char, id)

\* backspace that raises the carriage target without the cap at zero
backspaceUncapped(sc) ==
  LET back == sc.paperPosition.x - charWidth IN
  [sc EXCEPT
     !.paperPosition = [x |-> IF back > backspaceMinX THEN back ELSE backspaceMinX,
                        y |-> sc.paperPosition.y],
     !.carriageTargetX = @ + carriageStep]

\* backspace()
backspace(sc) ==
  LET back == sc.paperPosition.x - charWidth
      up == sc.carriageTargetX + carriageStep
  IN  [sc EXCEPT
         !.paperPosition = [x |-> IF back > backspaceMinX THEN back ELSE backspaceMinX,
                            y |-> sc.paperPosition.y],
         !.carriageTargetX = IF up < 0 THEN up ELSE 0]

\* newline()
newline(sc) == handleNewline(sc)

\* reset() of the scene
reset(sc) == [clearPaper(sc) EXCEPT !.carriageTargetX = 0, !.carriageCurrentX = 0]

\* a target (degrees, or hundredths of a unit) in the finer unit in which
\* the current angle and the current offset are kept: a thousandth of it
Fine(target) == target * 1000

\* diff * 0.3 or diff * 0.1, the factor given in tenths.  The products are
\* whole numbers of the fine unit for the first three frames after a rest;
\* beyond that the division drops a fraction of the fine unit.
Ease(diff, tenths) ==
  IF diff >= 0 THEN (diff * tenths) \div 10 ELSE 0 - (((0 - diff) * tenths) \div 10)

\* animate that moves each value by 1.3 times what is left to its target
animateOvershoot(sc) ==
  [sc EXCEPT
     !.currentRotation =
        [b \in BarChars |->
           @[b] + Ease(Fine(sc.typeBars[b].targetRotation) - @[b], 10 + barEase)],
     !.carriageCurrentX = @ + Ease(Fine(sc.carriageTargetX) - @, 10 + carriageEase)]

\* animate(): one frame.  Each bar not at its target angle moves 0.3 of the
\* way to it, the carriage 0.1 of the way to its target offset.
animate(sc) ==
  [sc EXCEPT
     !.currentRotation =
        [b \in BarChars |->
           IF @[b] # Fine(sc.typeBars[b].targetRotation)
           THEN @[b] + Ease(Fine(sc.typeBars[b].targetRotation) - @[b], barEase)
           ELSE @[b]],
     !.carriageCurrentX =
        IF @ # Fine(sc.carriageTargetX)
        THEN @ + Ease(Fine(sc.carriageTargetX) - @, carriageEase)
        ELSE @]

\* the callbacks, with a print callback that leaves the target angle alone
TimerCallbackNoReturn(sc, t) ==
  IF t.kind = "print"
  THEN LET struck == createInkSplatter(printCharacter(sc, t.char, t.id), t.char) IN
       [struck EXCEPT
          !.timers = Append(@, Timer("release", releaseDelay, t.bar, t.char, t.id, 0))]
  ELSE IF t.kind = "release"
  THEN [sc EXCEPT !.typeBars[t.bar].isAnimating = FALSE]
  ELSE [sc EXCEPT !.keys[t.bar] = t.originalY]

\* the callback of the timer t
TimerCallback(sc, t) ==
  IF t.kind = "print"
  THEN LET struck == createInkSplatter(printCharacter(sc, t.char, t.id), t.char) IN
       [struck EXCEPT
          !.typeBars[t.bar].targetRotation = restAngle,
          !.timers = Append(@, Timer("release", releaseDelay, t.bar, t.char, t.id, 0))]
  ELSE IF t.kind = "release"
  THEN [sc EXCEPT !.typeBars[t.bar].isAnimating = FALSE]
  ELSE [sc EXCEPT !.keys[t.bar] = t.originalY]

\* the timers without the i-th
WithoutTimer(timers, i) == SubSeq(timers, 1, i - 1) \o SubSeq(timers, i + 1, Len(timers))

\* the i-th timer may run: it is due, and no timer set before it with a
\* delay no longer than its own is still waiting
MayRun(timers, i) ==
  /\ timers[i].rem = 0
  /\ \A j \in 1..(i - 1) : timers[j].delay > timers[i].delay

\* the scene after construction: every bar at rest, every key up, the paper
\* cleared by createPaper
NewScene ==
  [typeBars |-> [b \in BarChars |-> [isAnimating |-> FALSE, targetRotation |-> restAngle]],
   keys |-> [k \in KeyChars |-> 0],
   timers |-> <<>>,
   paperPosition |-> [x |-> clearX, y |-> clearY],
   carriageTargetX |-> 0,
   paper |-> {},
   inkSplatters |-> <<>>,
   printLog |-> <<>>,
   scrolls |-> 0,
   currentRotation |-> [b \in BarChars |-> Fine(restAngle)],
   carriageCurrentX |-> 0]

\* the fields of the scene, and what is recorded of its run
VARIABLES typeBars, keys, timers, paperPosition, carriageTargetX, paper,
          inkSplatters,
          printLog,  \* the printCharacter calls that drew a glyph, in order
          scrolls,   \* how many times scrollPaper has run
          typedLog,  \* the typeCharacter calls for a character, in order
          sceneOp,   \* the last call of a method, and how many were made
          currentRotation,  \* of each type bar, in thousandths of a degree
          carriageCurrentX  \* in thousandths of the unit of carriageTargetX

sceneVars ==
  <<typeBars, keys, timers, paperPosition, carriageTargetX, paper, inkSplatters,
    printLog, scrolls, typedLog, sceneOp, currentRotation, carriageCurrentX>>

\* --------------------------------------------------------------- index.ts
\* the event types startApp listens to, and the listeners onload registers
EventTypes == {"click", "touchstart", "touchend", "keydown", "keyup"}
Registered ==
  {[target |-> "splash", type |-> t] : t \in EventTypes}
    \cup {[target |-> "document", type |-> t] : t \in {"keydown", "click"}}

\* how new App(), app.start() and app.focusText() end
StartOutcomes == {"started", "App throws", "start throws", "focusText throws"}

\* startApp with neither the appStarted test nor the removal of listeners
startAppAlways(sp, e, outcome) ==
  IF e.modifier THEN sp
  ELSE LET begun == [sp EXCEPT !.appStarted = TRUE, !.splashHide = TRUE,
                               !.attempts = @ + 1]
       IN  CASE outcome = "started" -> [begun EXCEPT !.appStarts = @ + 1]
             [] outcome = "App throws" -> [begun EXCEPT !.appStarted = FALSE]
             [] OTHER -> [begun EXCEPT !.appStarts = @ + 1, !.appStarted = FALSE]

\* startApp without the test of the modifier keys
startAppAnyKey(sp, e, outcome) ==
  IF sp.appStarted THEN sp
  ELSE LET begun == [sp EXCEPT !.appStarted = TRUE, !.splashHide = TRUE,
                               !.listeners = @ \ Registered,
                               !.attempts = @ + 1]
       IN  CASE outcome = "started" -> [begun EXCEPT !.appStarts = @ + 1]
             [] outcome = "App throws" -> [begun EXCEPT !.appStarted = FALSE]
             [] OTHER -> [begun EXCEPT !.appStarts = @ + 1, !.appStarted = FALSE]

\* startApp(e).  Mouse, touch and keyboard events all have altKey, so the
\* test of the modifier keys is made for each of them; e.modifier is
\* altKey || ctrlKey || metaKey.  attempts counts the runs that reach
\* new App(), appStarts the calls of app.start().
startApp(sp, e, outcome) ==
  IF sp.appStarted THEN sp
  ELSE IF e.modifier THEN sp
  ELSE LET begun == [sp EXCEPT !.appStarted = TRUE, !.splashHide = TRUE,
                               !.listeners = @ \ Registered,
                               !.attempts = @ + 1]
       IN  CASE outcome = "started" -> [begun EXCEPT !.appStarts = @ + 1]
             [] outcome = "App throws" -> [begun EXCEPT !.appStarted = FALSE]
             [] OTHER -> [begun EXCEPT !.appStarts = @ + 1, !.appStarted = FALSE]

\* an event is dispatched: the listeners of its target, then, as it
\* bubbles, those of the document; a listener removed meanwhile is not run
Dispatch(sp, e, outcome) ==
  LET atTarget == IF [target |-> e.target, type |-> e.type] \in sp.listeners
                  THEN startApp(sp, e, outcome) ELSE sp
  IN  IF e.target # "document"
         /\ [target |-> "document", type |-> e.type] \in atTarget.listeners
      THEN startApp(atTarget, e, outcome)
      ELSE atTarget

\* onload(): the listeners are registered
onload(sp) == [sp EXCEPT !.listeners = @ \cup Registered]

\* ---------------------------------------------------------- getAppMenu.ts
\* Storage: the saved writings, each under its id with a name and the
\* exported text.  update and updateWriting of an id that is not stored
\* change nothing.
StorageCreate(st, id, writing) ==
  [i \in DOMAIN st \cup {id} |->
     IF i = id THEN [name |-> "", writing |-> writing] ELSE st[i]]
StorageDeleteById(st, id) == [i \in DOMAIN st \ {id} |-> st[i]]
StorageUpdate(st, id, name) ==
  IF id \in DOMAIN st THEN [st EXCEPT ![id].name = name] ELSE st
StorageUpdateWriting(st, id, writing) ==
  IF id \in DOMAIN st THEN [st EXCEPT ![id].writing = writing] ELSE st
StorageGet(st, key) == IF key \in DOMAIN st THEN Some(st[key].writing) ELSE Undefined

\* lastLoadedId when no writing is loaded (unset, or the empty string)
NoId == 0

\* a call of Storage, as recorded
StorageCall(fn, id) == [fn |-> fn, id |-> id]

\* the menu as a record mn: lastLoadedId, storage, created, dialog, and
\* calls, the calls of Storage made by the callback that ran last

\* New
MenuNew(mn) == [mn EXCEPT !.lastLoadedId = NoId, !.calls = <<>>]

\* Save that creates an entry whether a writing is loaded or not
MenuSaveAlwaysCreate(mn, exported) ==
  IF exported = <<"[", "]">> THEN [mn EXCEPT !.calls = <<>>]
  ELSE LET id == mn.created + 1
           made == StorageCreate(mn.storage, id, exported)
       IN  [mn EXCEPT
              !.storage = made,
              !.created = id,
              !.calls = <<StorageCall("create", id)>>,
              !.dialog = Some([id |-> id, exported |-> exported,
                               value |-> made[id].name,
                               isNew |-> mn.lastLoadedId = NoId,
                               before |-> mn.storage])]

\* Save, up to the opening of the dialog; exported is what export() returned
MenuSave(mn, exported) ==
  IF exported = <<"[", "]">> THEN [mn EXCEPT !.calls = <<>>]
  ELSE LET loadedId == mn.lastLoadedId
           id == IF loadedId # NoId THEN loadedId ELSE mn.created + 1
           made == IF loadedId # NoId THEN mn.storage
                   ELSE StorageCreate(mn.storage, id, exported)
       IN  [mn EXCEPT
              !.storage = made,
              !.created = IF loadedId # NoId THEN @ ELSE id,
              !.calls = IF loadedId # NoId THEN <<>> ELSE <<StorageCall("create", id)>>,
              !.dialog = Some([id |-> id, exported |-> exported,
                               value |-> IF id \in DOMAIN made THEN made[id].name ELSE "",
                               isNew |-> loadedId = NoId,
                               before |-> mn.storage])]

\* onSubmit of the Save dialog; the dialog closes when it returns true
SaveSubmit(mn, name) ==
  LET d == mn.dialog.v IN
  IF name = "" THEN [mn EXCEPT !.calls = <<>>]
  ELSE LET written == IF mn.lastLoadedId # NoId
                      THEN StorageUpdateWriting(mn.storage, mn.lastLoadedId, d.exported)
                      ELSE mn.storage
       IN  [mn EXCEPT
              !.storage = StorageUpdate(written, d.id, name),
              !.calls = (IF mn.lastLoadedId # NoId
                         THEN <<StorageCall("updateWriting", mn.lastLoadedId)>>
                         ELSE <<>>) \o <<StorageCall("update", d.id)>>,
              !.dialog = Undefined]

\* onCancel of the Save dialog that deletes nothing
SaveCancelKeep(mn) == [mn EXCEPT !.calls = <<>>, !.dialog = Undefined]

\* onCancel of the Save dialog
SaveCancel(mn) ==
  LET d == mn.dialog.v IN
  IF mn.lastLoadedId = NoId
  THEN [mn EXCEPT !.storage = StorageDeleteById(@, d.id),
                  !.calls = <<StorageCall("deleteById", d.id)>>,
                  !.dialog = Undefined]
  ELSE [mn EXCEPT !.calls = <<>>, !.dialog = Undefined]

\* onClick of the saved list: the menu after it
SavedClick(mn, key) ==
  IF StorageGet(mn.storage, key).def /\ StorageGet(mn.storage, key).v # <<>>
  THEN [mn EXCEPT !.lastLoadedId = key, !.calls = <<StorageCall("get", key)>>]
  ELSE [mn EXCEPT !.storage = StorageDeleteById(@, key),
                  !.calls = <<StorageCall("get", key), StorageCall("deleteById", key)>>]

\* onClick of the saved list: the document after it
SavedClickDocument(mn, tw, key) ==
  IF StorageGet(mn.storage, key).def /\ StorageGet(mn.storage, key).v # <<>>
  THEN Import(tw, StorageGet(mn.storage, key).v).tw
  ELSE tw

\* onDelete of the saved list
SavedDelete(mn, key) ==
  [mn EXCEPT !.storage = StorageDeleteById(@, key),
             !.calls = <<StorageCall("deleteById", key)>>]

\* onSubmit of the Update dialog of the saved list
SavedEdit(mn, key, newName) ==
  IF newName = "" THEN [mn EXCEPT !.calls = <<>>]
  ELSE [mn EXCEPT !.storage = StorageUpdate(@, key, newName),
                  !.calls = <<StorageCall("update", key)>>]

\* content.split(/[\r\n]/): cur is the line being read
RECURSIVE SplitLines(_, _)
SplitLines(content, cur) ==
  IF content = <<>> THEN <<cur>>
  ELSE IF Head(content) \in {"\r", "\n"}
       THEN <<cur>> \o SplitLines(Tail(content), <<>>)
       ELSE SplitLines(Tail(content), Append(cur, Head(content)))

\* the loop of Paste Text over the lines
RECURSIVE PasteLines(_, _)
PasteLines(tw, lines) ==
  IF lines = <<>> THEN tw
  ELSE PasteLines(HandleNewline(AddCharacter(tw, Some(Head(lines)), Undefined,
                                             Undefined).tw),
                  Tail(lines))

\* onSubmit of the Paste Text dialog
PasteText(tw, content) == PasteLines(Reset(tw), SplitLines(content, <<>>))

\* the page around the document: the timer of debouncedReposition and what
\* is recorded of resize events, and the last string export() returned
VARIABLES resizeTimer,  \* the pending timer: the milliseconds left, if any
          sinceResize,  \* milliseconds since the last resize event, up to the wait
          resizes,      \* how many resize events there were
          bursts,       \* how many bursts of resize events began
          repositions,  \* how many times the debounced reposition ran
          redrawn,      \* the characters the last of these drew
          lastExport    \* what export() returned, and whether another export()
                        \* came before it with no addCharacter, reset or
                        \* import in between; kept until one of these is called

pageVars ==
  <<resizeTimer, sinceResize, resizes, bursts, repositions, redrawn, lastExport>>

\* the start of the app, and what is recorded of the events
VARIABLES loaded,      \* the load event has come
          appStarted, splashHide, listeners,
          attempts,    \* how many times startApp reached new App()
          appStarts,   \* how many times app.start() was called
          eventLog     \* the events dispatched, each with how its start ended

startVars == <<loaded, appStarted, splashHide, listeners, attempts, appStarts, eventLog>>

\* the menu: the id of the writing loaded, the storage, the dialog open
VARIABLES lastLoadedId, storage,
          created,       \* how many entries Storage.create has made
          dialog,        \* the Save dialog, while it is open
          storageCalls,  \* the calls of Storage that the last menu step made
          menuOp         \* the last menu step

menuVars == <<lastLoadedId, storage, created, dialog, storageCalls, menuOp>>

allVars == <<vars, sceneVars, pageVars, startVars, menuVars>>

\* index.ts and getAppMenu when the page is loaded
NewApp ==
  /\ loaded = FALSE
  /\ appStarted = FALSE
  /\ splashHide = FALSE
  /\ listeners = {}
  /\ attempts = 0
  /\ appStarts = 0
  /\ eventLog = <<>>
  /\ lastLoadedId = NoId
  /\ storage = [id \in {} |-> id]
  /\ created = 0
  /\ dialog = Undefined
  /\ storageCalls = <<>>
  /\ menuOp = [name |-> "none", key |-> NoId, input |-> <<>>]

\* the menu as one record
MenuNow ==
  [lastLoadedId |-> lastLoadedId, storage |-> storage, created |-> created,
   dialog |-> dialog, calls |-> storageCalls]

\* the splash and its listeners as one record
Splash ==
  [appStarted |-> appStarted, splashHide |-> splashHide, listeners |-> listeners,
   attempts |-> attempts, appStarts |-> appStarts]

\* the page when the TypeWriter is constructed
NewPage ==
  /\ resizeTimer = Undefined
  /\ sinceResize = debounceWait
  /\ resizes = 0
  /\ bursts = 0
  /\ repositions = 0
  /\ redrawn = <<>>
  /\ lastExport = Undefined

\* the scene as one record, for the operators above
Scene ==
  [typeBars |-> typeBars, keys |-> keys, timers |-> timers,
   paperPosition |-> paperPosition, carriageTargetX |-> carriageTargetX,
   paper |-> paper, inkSplatters |-> inkSplatters, printLog |-> printLog,
   scrolls |-> scrolls, currentRotation |-> currentRotation,
   carriageCurrentX |-> carriageCurrentX]

SceneIs(sc) ==
  /\ typeBars = sc.typeBars
  /\ keys = sc.keys
  /\ timers = sc.timers
  /\ paperPosition = sc.paperPosition
  /\ carriageTargetX = sc.carriageTargetX
  /\ paper = sc.paper
  /\ inkSplatters = sc.inkSplatters
  /\ printLog = sc.printLog
  /\ scrolls = sc.scrolls
  /\ currentRotation = sc.currentRotation
  /\ carriageCurrentX = sc.carriageCurrentX

\* ------------------------------------------------------------- behaviour
\* what is typed: a Latin letter, a Hebrew letter, and a text of two code
\* units, a quote and a Hebrew letter
Texts == {<<"a">>, <<"alef">>, <<"\"", "alef">>}

\* the Hebrew letters among the characters typed
HebrewLetters == {"alef"}

\* an explicit placement, in mid-line: more than two letter-widths from
\* either margin
PlacedAt == {Vector(getLeftMargin + 2 * getLetterWidth + 1, OriginY)}

\* drags of the page
Drags == {Vector(1, 0)}

\* texts handed to import: the export of the document, the export of
\* another document, that export cut short, an array of one record followed
\* by null, an object, and an array whose entry has no s and no y
OtherRecords ==
  <<Character(<<"alef">>, getLeftMargin, OriginY),
    Character(<<"b">>, getRightMargin + getLetterWidth, OriginY + LineHeight)>>
OtherDocument == Export(OtherRecords)
CutShort == SubSeq(OtherDocument, 1, Len(OtherDocument) - 1)
WithNullEntry ==
  <<"[">> \o StringifyRecord(Character(<<"b">>, getLeftMargin, OriginY))
  \o <<",", "n", "u", "l", "l", "]">>
ImportTexts(exported) ==
  {exported, OtherDocument, CutShort, WithNullEntry,
   <<"{", "}">>, <<"[", "{", "\"", "x", "\"", ":", "2", "}", "]">>}

Init ==
  /\ chars = <<>>
  /\ cursor = initialPosVec
  /\ isRTLMode = FALSE
  /\ canvasOffset = Vector(0, 0)
  /\ containerScale = 1
  /\ op = [name |-> "new", text |-> <<>>, completed |-> TRUE,
           fresh |-> TRUE, empty |-> TRUE, exported |-> FALSE]
  /\ fresh = TRUE
  /\ typedHebrew = FALSE
  /\ SceneIs(NewScene)
  /\ typedLog = <<>>
  /\ sceneOp = [name |-> "new", calls |-> 0]
  /\ NewPage
  /\ NewApp

\* the fields after a call, with the record of the call
Call(name, text, completed, exported, tw, stillFresh) ==
  /\ chars' = tw.chars
  /\ cursor' = tw.cursor
  /\ isRTLMode' = tw.isRTLMode
  /\ canvasOffset' = tw.canvasOffset
  /\ containerScale' = tw.containerScale
  /\ op' = [name |-> name, text |-> text, completed |-> completed,
            fresh |-> fresh, empty |-> (chars = <<>>), exported |-> exported]
  /\ fresh' = stillFresh
  /\ typedHebrew' = IF name = "addCharacter" /\ text # <<>>
                    THEN text[Len(text)] \in HebrewLetters
                    ELSE typedHebrew
  /\ lastExport' = IF name = "export"
                   THEN Some([text |-> Export(chars),
                              again |-> lastExport.def])
                   ELSE IF name \in {"addCharacter", "addCharacterAt", "reset", "import"}
                   THEN Undefined
                   ELSE lastExport
  /\ UNCHANGED <<sceneVars, resizeTimer, sinceResize, resizes, bursts, repositions,
                 redrawn, startVars, menuVars>>

\* addCharacter(text)
DoAddCharacter ==
  \E text \in Texts :
    /\ Len(chars) < MaxChars
    /\ Call("addCharacter", text, TRUE, FALSE,
            AddCharacter(This, Some(text), Undefined, Undefined).tw, fresh)

\* addCharacter(s, x, y)
DoAddCharacterAt ==
  \E s \in {<<"b">>}, at \in PlacedAt :
    /\ Len(chars) < MaxChars
    /\ Call("addCharacterAt", <<>>, TRUE, FALSE,
            AddCharacter(This, Some(s), Some(at.x), Some(at.y)).tw, FALSE)

\* handleNewline()
DoHandleNewline ==
  /\ cursor.y < OriginY + MaxLines * LineHeight
  /\ Call("handleNewline", <<>>, TRUE, FALSE, HandleNewline(This), fresh)

\* reposition(vec) for a drag of the page
DoReposition ==
  \E vec \in Drags :
    /\ Reposition(This, Some(vec)).canvasOffset.x <= MaxDrag
    /\ Call("reposition", <<>>, TRUE, FALSE, Reposition(This, Some(vec)), fresh)

\* reset()
DoReset == Call("reset", <<>>, TRUE, FALSE, Reset(This), FALSE)

\* import(str)
DoImport ==
  LET exported == Export(chars) IN
  \E str \in ImportTexts(exported) :
    LET r == Import(This, str) IN
    Call("import", <<>>, r.outcome = "imported", str = exported, r.tw,
         fresh /\ r.outcome \in {"parse error", "not an array"})

Next ==
  \/ DoAddCharacter
  \/ DoAddCharacterAt
  \/ DoHandleNewline
  \/ DoReposition
  \/ DoReset
  \/ DoImport

Spec == Init /\ [][Next]_allVars

\* a text of one character outside the Basic Multilingual Plane: U+1F600,
\* two code units in a JavaScript string
AstralText == <<"hi", "lo">>

\* addCharacter(text) for the astral text
DoAddAstral ==
  /\ Len(chars) < MaxChars
  /\ Call("addCharacter", AstralText, TRUE, FALSE,
          AddCharacter(This, Some(AstralText), Undefined, Undefined).tw, fresh)

NextAstral ==
  \/ Next
  \/ DoAddAstral

\* the same program, typing astral text too
SpecAstral == Init /\ [][NextAstral]_allVars

\* redraw()
DoRedraw == Call("redraw", <<>>, TRUE, FALSE, This, fresh)

\* reposition() with no argument
DoRepositionHere == Call("reposition", <<>>, TRUE, FALSE, Reposition(This, Undefined), fresh)

\* export()
DoExport == Call("export", <<>>, TRUE, FALSE, This, fresh)

NextReadOnly ==
  \/ Next
  \/ DoRedraw
  \/ DoRepositionHere
  \/ DoExport

\* the same program, with the calls that only read the document
SpecReadOnly == Init /\ [][NextReadOnly]_allVars

\* resize events in one run
MaxResizes == 3

\* time passes in steps of at most this many milliseconds, up to the
\* instant the timer is due
ResizeTick == debounceWait \div 2

\* a resize event: the listener is debouncedReposition.  The event goes on
\* a burst when it comes less than the wait after the one before it, or at
\* the very instant the timer is due and before the timer runs.
ResizeEvent ==
  /\ resizes < MaxResizes
  /\ resizeTimer' = debounceCall(resizeTimer)
  /\ sinceResize' = 0
  /\ resizes' = resizes + 1
  /\ bursts' = IF resizes > 0 /\ (sinceResize < debounceWait \/ resizeTimer.def)
               THEN bursts ELSE bursts + 1
  /\ UNCHANGED <<vars, sceneVars, repositions, redrawn, lastExport, startVars, menuVars>>

\* time passes while the timer of debouncedReposition is not due
ResizeTimePasses ==
  /\ resizeTimer.def
  /\ resizeTimer.v > 0
  /\ LET d == IF ResizeTick < resizeTimer.v THEN ResizeTick ELSE resizeTimer.v
     IN  /\ resizeTimer' = Some(resizeTimer.v - d)
         /\ sinceResize' = IF sinceResize + d < debounceWait
                           THEN sinceResize + d ELSE debounceWait
  /\ UNCHANGED <<vars, sceneVars, resizes, bursts, repositions, redrawn, lastExport,
                 startVars, menuVars>>

\* the timer of debouncedReposition runs: reposition(event), the event not
\* being a Vector
RepositionTimerFires ==
  /\ resizeTimer.def
  /\ resizeTimer.v = 0
  /\ LET tw == Reposition(This, Undefined) IN
     /\ chars' = tw.chars
     /\ cursor' = tw.cursor
     /\ isRTLMode' = tw.isRTLMode
     /\ canvasOffset' = tw.canvasOffset
     /\ containerScale' = tw.containerScale
     /\ redrawn' = Redraw(tw)
  /\ resizeTimer' = Undefined
  /\ repositions' = repositions + 1
  /\ UNCHANGED <<op, fresh, typedHebrew, sceneVars, sinceResize, resizes, bursts,
                 lastExport, startVars, menuVars>>

NextResize ==
  \/ DoAddCharacter
  \/ DoHandleNewline
  \/ ResizeEvent
  \/ ResizeTimePasses
  \/ RepositionTimerFires

\* typing in a window that is resized
SpecResize == Init /\ [][NextResize]_allVars

\* events in one run
MaxEvents == 3

\* the events: of each type on the splash, and a key or a click elsewhere
\* in the document; with a modifier key held or not
Events ==
  {[target |-> l.target, type |-> l.type, modifier |-> m] :
     l \in Registered, m \in BOOLEAN}

\* the load event
OnLoad ==
  /\ ~loaded
  /\ loaded' = TRUE
  /\ listeners' = onload(Splash).listeners
  /\ UNCHANGED <<vars, sceneVars, pageVars, menuVars, appStarted, splashHide,
                 attempts, appStarts, eventLog>>

\* an event reaches the splash or the document
AppEvent ==
  \E e \in Events, outcome \in StartOutcomes :
    LET sp == Dispatch(Splash, e, outcome) IN
    /\ Len(eventLog) < MaxEvents
    /\ appStarted' = sp.appStarted
    /\ splashHide' = sp.splashHide
    /\ listeners' = sp.listeners
    /\ attempts' = sp.attempts
    /\ appStarts' = sp.appStarts
    /\ eventLog' = Append(eventLog,
                          [target |-> e.target, type |-> e.type, modifier |-> e.modifier,
                           result |-> IF sp.attempts = attempts THEN "none" ELSE outcome])
    /\ UNCHANGED <<vars, sceneVars, pageVars, menuVars, loaded>>

NextStart ==
  \/ OnLoad
  \/ AppEvent

\* the page from its loading to the start of the app
SpecStart == Init /\ [][NextStart]_allVars

\* entries created in one run
MaxSaves == 2

\* what is pasted: one line, and two lines with each way of writing the break
Pasted ==
  {<<"a">>, <<"a", "\n", "b">>, <<"a", "\r", "b">>, <<"a", "\r", "\n", "b">>}

\* the names typed into a dialog
Names == {"", "n"}

\* the menu and the document after a callback of the menu
MenuBecomes(name, key, input, mn, tw) ==
  /\ lastLoadedId' = mn.lastLoadedId
  /\ storage' = mn.storage
  /\ created' = mn.created
  /\ dialog' = mn.dialog
  /\ storageCalls' = mn.calls
  /\ menuOp' = [name |-> name, key |-> key, input |-> input]
  /\ chars' = tw.chars
  /\ cursor' = tw.cursor
  /\ isRTLMode' = tw.isRTLMode
  /\ canvasOffset' = tw.canvasOffset
  /\ containerScale' = tw.containerScale
  /\ fresh' = FALSE
  /\ lastExport' = Undefined
  /\ UNCHANGED <<op, typedHebrew, sceneVars, startVars, resizeTimer, sinceResize,
                 resizes, bursts, repositions, redrawn>>

\* New: app.reset() resets the typewriter
DoMenuNew ==
  /\ ~dialog.def
  /\ MenuBecomes("new", NoId, <<>>, MenuNew(MenuNow), Reset(This))

\* Save
DoMenuSave ==
  /\ ~dialog.def
  /\ lastLoadedId # NoId \/ chars = <<>> \/ created < MaxSaves
  /\ MenuBecomes("save", NoId, <<>>, MenuSave(MenuNow, Export(chars)), This)

\* the Save dialog is submitted
DoSaveSubmit ==
  \E name \in Names :
    /\ dialog.def
    /\ MenuBecomes("submit", dialog.v.id, <<name>>, SaveSubmit(MenuNow, name), This)

\* the Save dialog is cancelled
DoSaveCancel ==
  /\ dialog.def
  /\ MenuBecomes("cancel", dialog.v.id, <<>>, SaveCancel(MenuNow), This)

\* a writing of the saved list is clicked
DoSavedClick ==
  \E key \in DOMAIN storage :
    /\ ~dialog.def
    /\ MenuBecomes("load", key, <<>>, SavedClick(MenuNow, key),
                   SavedClickDocument(MenuNow, This, key))

\* a writing of the saved list is deleted
DoSavedDelete ==
  \E key \in DOMAIN storage :
    /\ ~dialog.def
    /\ MenuBecomes("delete", key, <<>>, SavedDelete(MenuNow, key), This)

\* a writing of the saved list is renamed
DoSavedEdit ==
  \E key \in DOMAIN storage, newName \in Names :
    /\ ~dialog.def
    /\ MenuBecomes("edit", key, <<newName>>, SavedEdit(MenuNow, key, newName), This)

\* Paste Text is submitted
DoPasteText ==
  \E content \in Pasted :
    /\ ~dialog.def
    /\ MenuBecomes("paste", NoId, content, [MenuNow EXCEPT !.calls = <<>>],
                   PasteText(This, content))

NextMenu ==
  \/ DoMenuNew
  \/ DoMenuSave
  \/ DoSaveSubmit
  \/ DoSaveCancel
  \/ DoSavedClick
  \/ DoSavedDelete
  \/ DoSavedEdit
  \/ DoPasteText

\* the document worked on through the menu
SpecMenu == Init /\ [][NextMenu]_allVars

\* ------------------------------------------------------- scene behaviour
\* calls of public methods in one run
MaxCalls == 3

\* what is typed: a letter in lower case and one in upper case, each with a
\* key and a type bar, a full stop, which has neither, and a line feed
TypedChars == {"a", "B", ".", "\n"}

\* time passes in steps of at most this many milliseconds; a step ends at
\* the next due timer, so a call may come at every instant at which a timer
\* is due, before the timer runs or after
Tick == strikeDelay

\* a session in progress: full stops typed until the next one wraps
RECURSIVE FillLine(_)
FillLine(sc) ==
  IF sc.paperPosition.x + charWidth > canvasWidth - paperRightMargin THEN sc
  ELSE FillLine(printCharacter(sc, ".", 0))

\* a session in progress: lines of one full stop until the next newline scrolls
RECURSIVE FillPage(_)
FillPage(sc) ==
  IF sc.paperPosition.y + lineHeight > canvasHeight - paperBottomMargin THEN sc
  ELSE FillPage(newline(printCharacter(sc, ".", 0)))

\* the scenes a run starts from: a new one, and sessions whose pen is at
\* the end of the first line or at the end of the last line; nothing is
\* recorded of how the session got there
StartScenes ==
  {[sc EXCEPT !.printLog = <<>>, !.scrolls = 0] :
     sc \in {NewScene, FillLine(NewScene), FillLine(FillPage(NewScene))}}

Init3D ==
  /\ chars = <<>>
  /\ cursor = initialPosVec
  /\ isRTLMode = FALSE
  /\ canvasOffset = Vector(0, 0)
  /\ containerScale = 1
  /\ op = [name |-> "new", text |-> <<>>, completed |-> TRUE,
           fresh |-> TRUE, empty |-> TRUE, exported |-> FALSE]
  /\ fresh = TRUE
  /\ typedHebrew = FALSE
  /\ \E sc \in StartScenes : SceneIs(sc)
  /\ typedLog = <<>>
  /\ sceneOp = [name |-> "new", calls |-> 0]
  /\ NewPage
  /\ NewApp

\* the fields of the scene after a call or a callback
SceneBecomes(after) ==
  \E sc \in {after} :
    /\ typeBars' = sc.typeBars
    /\ keys' = sc.keys
    /\ timers' = sc.timers
    /\ paperPosition' = sc.paperPosition
    /\ carriageTargetX' = sc.carriageTargetX
    /\ paper' = sc.paper
    /\ inkSplatters' = sc.inkSplatters
    /\ printLog' = sc.printLog
    /\ scrolls' = sc.scrolls
    /\ currentRotation' = sc.currentRotation
    /\ carriageCurrentX' = sc.carriageCurrentX
    /\ UNCHANGED <<vars, pageVars, startVars, menuVars>>

\* a call of a public method
SceneCall(name, sc) ==
  /\ sceneOp.calls < MaxCalls
  /\ SceneBecomes(sc)
  /\ sceneOp' = [name |-> name, calls |-> sceneOp.calls + 1]

\* typeCharacter(char)
SceneTypeCharacter ==
  \E char \in TypedChars :
    LET id == Len(typedLog) + 1 IN
    /\ SceneCall("typeCharacter", typeCharacter(Scene, char, id))
    /\ typedLog' = IF char = "\n" THEN typedLog
                   ELSE Append(typedLog, [id |-> id, s |-> char,
                                          x |-> paperPosition.x, y |-> paperPosition.y])

\* backspace()
SceneBackspace == SceneCall("backspace", backspace(Scene)) /\ UNCHANGED typedLog

\* newline()
SceneNewline == SceneCall("newline", newline(Scene)) /\ UNCHANGED typedLog

\* reset()
SceneReset == SceneCall("reset", reset(Scene)) /\ UNCHANGED typedLog

\* a timer that may run runs: it leaves the list, then its callback runs
TimerFires ==
  \E i \in 1..Len(timers) :
    /\ MayRun(timers, i)
    /\ SceneBecomes(TimerCallback([Scene EXCEPT !.timers = WithoutTimer(timers, i)],
                                  timers[i]))
    /\ UNCHANGED <<typedLog, sceneOp>>

\* time passes while no timer is due
TimePasses ==
  /\ timers # <<>>
  /\ \A i \in 1..Len(timers) : timers[i].rem > 0
  /\ LET soonest == CHOOSE r \in {timers[i].rem : i \in 1..Len(timers)} :
                      \A i \in 1..Len(timers) : r <= timers[i].rem
         d == IF Tick < soonest THEN Tick ELSE soonest
     IN  timers' = [i \in 1..Len(timers) |-> [timers[i] EXCEPT !.rem = @ - d]]
  /\ UNCHANGED <<startVars, menuVars>>
  /\ UNCHANGED <<vars, pageVars, typeBars, keys, paperPosition, carriageTargetX, paper,
                 inkSplatters, printLog, scrolls, typedLog, sceneOp,
                 currentRotation, carriageCurrentX>>

Next3D ==
  \/ SceneTypeCharacter
  \/ SceneBackspace
  \/ SceneNewline
  \/ SceneReset
  \/ TimerFires
  \/ TimePasses

Spec3D == Init3D /\ [][Next3D]_allVars

\* a new scene whose event loop runs every timer that is due, and whose
\* time does not stop
FairSpec3D ==
  Init /\ [][Next3D]_allVars /\ WF_allVars(TimerFires) /\ WF_allVars(TimePasses)

\* a frame of the render loop: animate() runs.  Frames count among the
\* calls of a run.
SceneAnimate == SceneCall("animate", animate(Scene)) /\ UNCHANGED typedLog

NextRender3D ==
  \/ Next3D
  \/ SceneAnimate

\* a new scene with its render loop
SpecRender3D == Init /\ [][NextRender3D]_allVars

\* a session that has scrolled once and has filled the page again: its pen
\* is at the start of the last line
ScrolledSession == FillPage(newline(FillPage(NewScene)))

Init3DScrolled ==
  /\ chars = <<>>
  /\ cursor = initialPosVec
  /\ isRTLMode = FALSE
  /\ canvasOffset = Vector(0, 0)
  /\ containerScale = 1
  /\ op = [name |-> "new", text |-> <<>>, completed |-> TRUE,
           fresh |-> TRUE, empty |-> TRUE, exported |-> FALSE]
  /\ fresh = TRUE
  /\ typedHebrew = FALSE
  /\ SceneIs([ScrolledSession EXCEPT !.printLog = <<>>, !.scrolls = 0])
  /\ typedLog = <<>>
  /\ sceneOp = [name |-> "new", calls |-> 0]
  /\ NewPage
  /\ NewApp

\* the scene in a session that goes on after its first scroll
SpecScrolled3D == Init3DScrolled /\ [][Next3D]_allVars

\* ---------------------------------------------------------------- claims
IsPrefix(a, b) == Len(a) <= Len(b) /\ SubSeq(b, 1, Len(a)) = a
Last(seq) == seq[Len(seq)]
ThisNext ==
  [chars |-> chars', cursor |-> cursor', isRTLMode |-> isRTLMode',
   canvasOffset |-> canvasOffset', containerScale |-> containerScale']
RoundTripStep == fresh /\ op'.name = "import" /\ op'.exported

\* C1: round trip.  When import(export()) is called on a document built
\* from a fresh TypeWriter by addCharacter(text) and handleNewline() calls
\* only, the records afterwards are the records before (same order, same
\* x, y and s) and export() returns the same string as before.
C1_RoundTrip ==
  [][RoundTripStep =>
       /\ op'.completed
       /\ chars' = chars
       /\ Export(chars') = Export(chars)]_vars

\* a typed document with a quote, a Hebrew letter and a second line has
\* been exported and imported
C1_Witness ==
  /\ op.name = "import" /\ op.exported /\ op.fresh /\ op.completed
  /\ Len(chars) >= 3
  /\ \E i, j, k \in 1..Len(chars) :
       /\ chars[i].s = <<"\"">>
       /\ chars[j].s = <<"alef">>
       /\ chars[k].y > OriginY

\* C2: import fails closed.  Whenever import does not complete (parse
\* error, payload that is not an array, entry that cannot be replayed),
\* the document sequence and the cursor are what they were before the call.
C2_ImportFailsClosed ==
  [][(op'.name = "import" /\ ~op'.completed) =>
       (chars' = chars /\ cursor' = cursor)]_vars

\* C3: reset clears.  After reset() export() returns "[]", the cursor is
\* at the configured origin, canvasOffset is (0,0) and containerScale is 1.
C3_ResetClears ==
  op.name = "reset" =>
    /\ Export(chars) = <<"[", "]">>
    /\ cursor = initialPosVec
    /\ canvasOffset = Vector(0, 0)
    /\ containerScale = 1

\* reset() has been called on a document that held characters
C3_Witness == op.name = "reset" /\ ~op.empty

\* C4: after reset(), and after an import that replayed its payload, the
\* direction mode is LTR, and a handleNewline() issued next goes to the
\* left margin.
C4_ResetDirection ==
  (op.name = "reset" \/ (op.name = "import" /\ op.completed)) =>
    /\ ~isRTLMode
    /\ HandleNewline(This).cursor.x = getLeftMargin

\* C5: margin invariant.  In every reachable state
\* leftMargin <= cursor.x <= rightMargin.
C5_MarginInvariant == getLeftMargin <= cursor.x /\ cursor.x <= getRightMargin

\* where the claim places a character typed at pos after a character whose
\* Hebrew-ness was prevHebrew
SeamX(char, prevHebrew, pos) ==
  IF char \in HebrewLetters /\ ~prevHebrew /\ pos.x <= getLeftMargin + 2 * getLetterWidth
  THEN getRightMargin
  ELSE IF char \notin HebrewLetters /\ prevHebrew
          /\ pos.x >= getRightMargin - 2 * getLetterWidth
  THEN getLeftMargin
  ELSE pos.x

\* C6: direction seam snap.  Every character typed by addCharacter(text) is
\* placed at the right margin when it is Hebrew, the character typed before
\* it was not, and the cursor is within two letter-widths of the left
\* margin; at the left margin when it is not Hebrew, the character before
\* it was, and the cursor is within two letter-widths of the right margin;
\* and at the cursor otherwise.  The cursor then stands one letter-width to
\* the left of a Hebrew character and one to the right of any other.
C6_SeamSnap ==
  [][op'.name = "addCharacter" =>
       \A k \in 1..Len(op'.text) :
         LET text == op'.text
             before == TypeText(This, SubSeq(text, 1, k - 1)).cursor
             after == IF k = Len(text) THEN cursor'
                      ELSE TypeText(This, SubSeq(text, 1, k)).cursor
             prevHebrew == IF k = 1 THEN typedHebrew ELSE text[k - 1] \in HebrewLetters
             placed == chars'[Len(chars) + k]
         IN  /\ placed.x = SeamX(text[k], prevHebrew, before)
             /\ placed.y = before.y
             /\ after.y = placed.y
             /\ after.x = IF text[k] \in HebrewLetters
                          THEN placed.x - getLetterWidth
                          ELSE placed.x + getLetterWidth]_vars

\* a Hebrew letter was snapped to the right margin and the Latin letter
\* typed after it was snapped back to the left margin
C6_Witness ==
  /\ op.name = "addCharacter" /\ op.text = <<"a">>
  /\ Len(chars) >= 2
  /\ chars[Len(chars) - 1].s = <<"alef">>
  /\ chars[Len(chars) - 1].x = getRightMargin
  /\ Last(chars).x = getLeftMargin
  /\ cursor.x = getLeftMargin + getLetterWidth

\* C7: in a document typed only through addCharacter(text) and
\* handleNewline(), no two placed characters have the same (x, y).
C7_NoOverlap ==
  fresh => \A i, j \in 1..Len(chars) :
             i < j => ~(chars[i].x = chars[j].x /\ chars[i].y = chars[j].y)

\* C8: handleNewline() moves the cursor to the right margin exactly when
\* the character typed last was Hebrew and to the left margin otherwise,
\* adds one line-height to y, and leaves the direction mode and the
\* document sequence unchanged.
C8_Newline ==
  [][op'.name = "handleNewline" =>
       /\ cursor'.x = IF typedHebrew THEN getRightMargin ELSE getLeftMargin
       /\ cursor'.y = cursor.y + LineHeight
       /\ isRTLMode' = isRTLMode
       /\ chars' = chars]_vars

\* a newline right after a Hebrew letter
C8_Witness ==
  /\ op.name = "handleNewline"
  /\ chars # <<>> /\ Last(chars).s = <<"alef">>
  /\ typedHebrew
  /\ cursor = Vector(getRightMargin, OriginY + LineHeight)

\* C9: after import(export()) of a document typed in a fresh session, a
\* character typed next is placed where it would have been placed had it
\* been typed next in the original session, and not on the last imported
\* character.
C9_ContinueAfterImport ==
  [][(RoundTripStep /\ chars # <<>>) =>
       \A c \in {"a", "alef"} :
         LET resumed == Last(TypeChar(ThisNext, c).chars)
             original == Last(TypeChar(This, c).chars)
         IN  /\ resumed = original
             /\ ~(resumed.x = Last(chars').x /\ resumed.y = Last(chars').y)]_vars

\* C10: the sequence is append-only and in typed order.  addCharacter(text)
\* keeps the previous sequence as a prefix and appends one entry per
\* character of text, in order; no call other than reset() and import()
\* removes, reorders or alters an entry.
C10_AppendOnly ==
  [][/\ op'.name = "addCharacter" =>
          /\ IsPrefix(chars, chars')
          /\ Len(chars') = Len(chars) + Len(op'.text)
          /\ \A k \in 1..Len(op'.text) : chars'[Len(chars) + k].s = <<op'.text[k]>>
     /\ op'.name \notin {"reset", "import"} => IsPrefix(chars, chars')]_vars

\* a text of two characters was typed after an earlier character
C10_Witness ==
  /\ op.name = "addCharacter" /\ Len(op.text) = 2 /\ ~op.empty
  /\ Len(chars) >= 3

\* the characters of a text: a high surrogate followed by a low surrogate is
\* one character, every other code unit is a character of its own
RECURSIVE Graphemes(_)
Graphemes(text) ==
  IF text = <<>> THEN <<>>
  ELSE IF Len(text) > 1 /\ IsHighSurrogate(text[1]) /\ IsLowSurrogate(text[2])
       THEN <<SubSeq(text, 1, 2)>> \o Graphemes(Tail(Tail(text)))
  ELSE <<SubSeq(text, 1, 1)>> \o Graphemes(Tail(text))

\* C11: addCharacter(text) without coordinates appends exactly one entry per
\* character of text, each entry holding the whole character; a character
\* outside the Basic Multilingual Plane (two code units) yields one entry.
C11_OnePerGrapheme ==
  [][op'.name = "addCharacter" =>
       LET g == Graphemes(op'.text) IN
       /\ Len(chars') = Len(chars) + Len(g)
       /\ \A i \in 1..Len(g) : chars'[Len(chars) + i].s = g[i]]_vars

\* texts and positions of explicit placements: Latin, Hebrew, mixed and
\* astral text, at either margin (inside both seams) and in mid-line
PlacedTexts == {<<"b">>, <<"alef">>, <<"a", "alef">>, AstralText}
PlacedSpots ==
  PlacedAt \cup {Vector(getLeftMargin, OriginY), Vector(getRightMargin, OriginY + LineHeight)}

\* C12: addCharacter(s, x, y) with both coordinates appends exactly one
\* entry {s, x, y}, sets the cursor to (x, y) and leaves the direction mode
\* and every other field alone, without a margin snap, whatever s is: for
\* the placement calls made, and for every text and position above in every
\* state reached.
C12_ExplicitPlacement ==
  /\ [][op'.name = "addCharacterAt" =>
          \E at \in PlacedAt :
            /\ chars' = Append(chars, Character(<<"b">>, at.x, at.y))
            /\ cursor' = at
            /\ isRTLMode' = isRTLMode]_vars
  /\ [](\A s \in PlacedTexts, at \in PlacedSpots :
          AddCharacter(This, Some(s), Some(at.x), Some(at.y)) =
            Returned([This EXCEPT !.chars = Append(chars, Character(s, at.x, at.y)),
                                  !.cursor = at]))
\* a Latin letter was placed by coordinates while the direction mode was
\* right-to-left, and the mode still is
C12_Witness ==
  /\ op.name = "addCharacterAt"
  /\ isRTLMode
  /\ chars # <<>> /\ Last(chars).s = <<"b">>
  /\ cursor \in PlacedAt

\* documents of { x, y, s } records: none, and one with a negative
\* coordinate, a text of several code units, a quote, a backslash and an
\* astral character
SampleDocuments ==
  {<<>>,
   <<Character(<<"a", "\"", "alef">>, 0 - 4, 12),
     Character(<<"\\">> \o AstralText, getRightMargin, 0)>>}

\* C13: import of a well-formed payload replaces the document.  When import
\* is handed a JSON array of { x, y, s } records, the document afterwards
\* is that array, entry for entry, and nothing of the previous document
\* remains: for the imports made (of the document's own export and of
\* another document's), and for the sample documents in every state.
C13_ImportReplaces ==
  /\ [][op'.name = "import" /\ op'.completed =>
          chars' = IF op'.exported THEN chars ELSE OtherRecords]_vars
  /\ [](\A doc \in SampleDocuments :
          LET r == Import(This, Export(doc)) IN
          r.outcome = "imported" /\ r.tw.chars = doc)
\* another document was imported over one that was not empty
C13_Witness ==
  /\ op.name = "import" /\ op.completed
  /\ ~op.exported /\ ~op.empty
  /\ chars = OtherRecords

\* the timers of a kind, and those of the strike of a bar
TimersOf(kind) == {i \in 1..Len(timers) : timers[i].kind = kind}
ChainOf(bar) ==
  {i \in 1..Len(timers) : timers[i].kind \in {"print", "release"} /\ timers[i].bar = bar}
\* a step that is a typeCharacter call for a character
TypedStep == Len(typedLog') = Len(typedLog) + 1

\* C14: printing is never blocked by animation.  Every typeCharacter(c)
\* for a character c leads to exactly one printCharacter(c): at once when c
\* has no type bar or its bar is animating, and otherwise by the strike
\* timer set for it; so every character typed is printed or has its print
\* timer pending, and once no print timer is pending each call has printed
\* its character exactly once.
C14_PrintingNotBlocked ==
  /\ [](/\ Len(printLog) + Cardinality(TimersOf("print")) = Len(typedLog)
        /\ \A k \in 1..Len(typedLog) :
             Cardinality({j \in 1..Len(printLog) :
                            printLog[j].id = k /\ printLog[j].s = typedLog[k].s})
             + Cardinality({i \in TimersOf("print") :
                              timers[i].id = k /\ timers[i].char = typedLog[k].s})
             = 1)
  /\ [][TypedStep =>
          LET c == Last(typedLog')
              bar == toUpperCase[c.s]
          IN  IF bar \in BarChars /\ ~typeBars[bar].isAnimating
              THEN /\ printLog' = printLog
                   /\ \E i \in 1..Len(timers') :
                        /\ timers'[i].kind = "print" /\ timers'[i].id = c.id
                        /\ timers'[i].rem = 50
              ELSE /\ printLog' = Append(printLog, c)
                   /\ Cardinality({i \in 1..Len(timers') : timers'[i].kind = "print"})
                        = Cardinality(TimersOf("print"))]_allVars
\* the same key was typed twice, the second time while its bar was still
\* animating: the second was printed at once, the first by its timer
C14_Witness ==
  /\ Len(typedLog) = 2 /\ typedLog[1].s = "a" /\ typedLog[2].s = "a"
  /\ Len(printLog) = 2 /\ printLog[1].id = 2 /\ printLog[2].id = 1

\* C15: strike guard.  No strike is started for a type bar whose
\* isAnimating is true: at every moment a bar has at most one pending timer
\* of a strike (print or release), it has one exactly while it is
\* animating, and a step that sets a print timer for a bar finds the bar
\* not animating.
C15_StrikeGuard ==
  /\ [](\A b \in BarChars :
          /\ Cardinality(ChainOf(b)) <= 1
          /\ typeBars[b].isAnimating <=> ChainOf(b) # {})
  /\ [][\A b \in BarChars :
          (\E i \in 1..Len(timers') :
             /\ timers'[i].kind = "print" /\ timers'[i].bar = b
             /\ \A j \in TimersOf("print") : timers[j].id # timers'[i].id)
          => ~typeBars[b].isAnimating]_allVars
\* a key was typed again while its bar was animating
C15_Witness ==
  /\ Len(typedLog) >= 2 /\ typedLog[1].s = "a" /\ typedLog[2].s = "a"
  /\ typeBars["A"].isAnimating
  /\ Cardinality(ChainOf("A")) = 1

\* C16: paper writes happen in typing order.  Of two typeCharacter calls,
\* the one made first is printed first, whether a key has a type bar (and
\* is printed by its timer) or not (and is printed at once).
C16_TypingOrder ==
  \A i, j \in 1..Len(printLog) : i < j => printLog[i].id < printLog[j].id

\* C17: reset() is safe while a strike is pending.  Once every timer has
\* run after a reset() that no other call followed, the paper is blank, the
\* pen is at its origin and the carriage target is 0.
C17_ResetSafe ==
  sceneOp.name = "reset" /\ timers = <<>> =>
    /\ paper = {}
    /\ paperPosition = [x |-> clearX, y |-> clearY]
    /\ carriageTargetX = 0

\* the pending timer of a kind for a bar, in a list of timers
ChainTimers(list, kind, bar) ==
  {i \in 1..Len(list) : list[i].kind = kind /\ list[i].bar = bar}

\* C18: the timeline of a strike.  A strike on a resting bar sets
\* isAnimating and turns the target to the strike angle, with the print due
\* in 50 ms; when that timer runs, the character is printed, the target
\* returns to rest and the release is due in 100 ms; when that one runs,
\* isAnimating becomes false.  These happen in this order, and every strike
\* started reaches isAnimating = false with the target at rest.
C18_StrikeTimeline ==
  /\ [](\A b \in BarChars :
          /\ ~typeBars[b].isAnimating =>
               typeBars[b].targetRotation = 60 /\ ChainOf(b) = {}
          /\ typeBars[b].isAnimating /\ typeBars[b].targetRotation = 0 - 30 =>
               ChainTimers(timers, "print", b) # {}
          /\ typeBars[b].isAnimating /\ typeBars[b].targetRotation = 60 =>
               ChainTimers(timers, "release", b) # {}
          /\ typeBars[b].targetRotation \in {60, 0 - 30})
  /\ [][\A b \in BarChars :
          \* the strike starts
          /\ ~typeBars[b].isAnimating /\ typeBars'[b].isAnimating =>
               /\ typeBars'[b].targetRotation = 0 - 30
               /\ \E i \in ChainTimers(timers', "print", b) : timers'[i].rem = 50
               /\ printLog' = printLog
          \* the print timer runs
          /\ ChainTimers(timers, "print", b) # {} /\ ChainTimers(timers', "print", b) = {} =>
               /\ \A i \in ChainTimers(timers, "print", b) :
                    /\ timers[i].rem = 0
                    /\ Len(printLog') = Len(printLog) + 1
                    /\ Last(printLog').s = timers[i].char
               /\ typeBars'[b] = [isAnimating |-> TRUE, targetRotation |-> 60]
               /\ \E i \in ChainTimers(timers', "release", b) : timers'[i].rem = 100
          \* the release timer runs
          /\ typeBars[b].isAnimating /\ ~typeBars'[b].isAnimating =>
               /\ \E i \in ChainTimers(timers, "release", b) : timers[i].rem = 0
               /\ typeBars[b].targetRotation = 60
               /\ typeBars'[b].targetRotation = 60]_allVars
  /\ \A b \in BarChars :
       typeBars[b].isAnimating ~>
         (~typeBars[b].isAnimating /\ typeBars[b].targetRotation = 60)
\* a strike has run its course: its character is printed and its bar is
\* back at rest, not animating
C18_Witness ==
  /\ Len(printLog) >= 1 /\ toUpperCase[printLog[1].s] = "B"
  /\ ~typeBars["B"].isAnimating
  /\ typeBars["B"].targetRotation = 60
  /\ inkSplatters # <<>>

\* a step that is a call of newline()
NewlineStep == sceneOp'.calls = sceneOp.calls + 1 /\ sceneOp'.name = "newline"

\* C19: the pen stays inside the paper window.  After every operation the
\* pen is no lower than the canvas height less the bottom margin and no
\* further right than the canvas width less the right margin; a newline
\* that would take it below the bottom margin scrolls the paper instead.
C19_PenInWindow ==
  /\ [](/\ paperPosition.y <= canvasHeight - paperBottomMargin
        /\ paperPosition.x <= canvasWidth - paperRightMargin)
  /\ [][NewlineStep =>
          IF paperPosition.y + lineHeight > canvasHeight - paperBottomMargin
          THEN scrolls' = scrolls + 1 /\ paperPosition'.y < paperPosition.y
          ELSE scrolls' = scrolls /\ paperPosition'.y = paperPosition.y + lineHeight]_allVars
\* a character printed at the end of the last line wrapped, and the wrap
\* scrolled the paper
C19_Witness ==
  /\ scrolls = 1
  /\ printLog # <<>>
  /\ Last(printLog).x + charWidth > canvasWidth - paperRightMargin
  /\ Last(printLog).y + lineHeight > canvasHeight - paperBottomMargin
  /\ paperPosition.y = canvasHeight - scrollPenOffset

\* what the marks of a paper put on the pixel row r: for each mark that
\* crosses the row, which row of the mark it is
InkAt(marks, r) ==
  {[ink |-> m.ink, s |-> m.s, x |-> m.x, row |-> r - m.y] :
     m \in {n \in marks : r \in MarkRows(n)}}
\* the pixel rows of the canvas
Rows == 0..(canvasHeight - 1)

\* C20: a scroll is an exact row shift.  scrollPaper moves every pixel row
\* r >= 2 * lineHeight to row r - 2 * lineHeight with its content
\* unchanged, discards the rows above, leaves the bottom 2 * lineHeight
\* rows as fresh background and puts the pen 200 rows above the bottom.
C20_ScrollShiftsRows ==
  [][NewlineStep /\ scrolls' = scrolls + 1 =>
       /\ \A r \in Rows : r >= 2 * 48 => InkAt(paper', r - 2 * 48) = InkAt(paper, r)
       /\ \A r \in Rows : r >= canvasHeight - 2 * 48 => InkAt(paper', r) = {}
       /\ paperPosition'.y = canvasHeight - 200]_allVars
\* the paper was scrolled by a newline, and a line written before is still
\* on it
C20_Witness ==
  /\ sceneOp.name = "newline"
  /\ scrolls = 1
  /\ paper # {}
  /\ paperPosition.y = canvasHeight - 200

\* C21: scrolling keeps the earlier lines intact.  Whenever scrollPaper has
\* run, the row of the pen differs from the row, after the shift, of every
\* glyph printed before the scroll, so that what is typed next does not land
\* on a line still in the window.
C21_ScrollKeepsLines ==
  [][scrolls' = scrolls + 1
     => \A m \in paper' : m.ink = "glyph" => m.y # paperPosition'.y]_allVars

\* a call of the public method of this name
CallStep(name) == sceneOp'.calls = sceneOp.calls + 1 /\ sceneOp'.name = name

\* C22: one configured pen origin.  The pen x after reset(), after an
\* explicit newline, after an automatic wrap and after a scroll (every step
\* that changes the pen row) is the pen x after construction; backspace
\* never leaves the pen left of that value; the pen after reset() is the pen
\* after construction.
C22_OnePenOrigin ==
  [][/\ (CallStep("reset") \/ CallStep("newline") \/ paperPosition'.y # paperPosition.y)
        => paperPosition'.x = NewScene.paperPosition.x
     /\ CallStep("backspace") => paperPosition'.x >= NewScene.paperPosition.x
     /\ CallStep("reset") => paperPosition' = NewScene.paperPosition]_allVars

\* a step in which printCharacter draws a glyph, and one in which it wraps
PrintStep == Len(printLog') = Len(printLog) + 1
WrapStep == PrintStep /\ paperPosition'.y # paperPosition.y

\* the target one step lower, no lower than the minimum
Lowered(target) ==
  IF target - carriageStep < carriageMin THEN carriageMin ELSE target - carriageStep

C24_NewlineZeroesCarriage ==
  [][(CallStep("newline") \/ (CallStep("typeCharacter") /\ typedLog' = typedLog)
        \/ WrapStep)
     => carriageTargetX' = 0 /\ paperPosition'.y # paperPosition.y]_allVars

\* a timer of a strike of this bar runs in the step
StrikeTimerRuns(bar) ==
  \E i \in ChainOf(bar) :
    /\ timers[i].rem = 0
    /\ \A j \in 1..Len(timers') :
         ~(timers'[j].kind = timers[i].kind /\ timers'[j].id = timers[i].id)

\* C25: strikes of different keys are independent.  A typeCharacter call
\* for one bar, and a strike timer of one bar that runs, leave isAnimating
\* and the target angle of every other bar as they were; and a call for a
\* bar that is not animating starts its strike, with the print due after
\* the full strike delay, whatever the other bars are doing.
C25_BarsIndependent ==
  [][\A b \in BarChars :
       /\ ((TypedStep /\ toUpperCase[Last(typedLog').s] = b) \/ StrikeTimerRuns(b))
            => \A o \in BarChars \ {b} : typeBars'[o] = typeBars[o]
       /\ (TypedStep /\ toUpperCase[Last(typedLog').s] = b /\ ~typeBars[b].isAnimating)
            => /\ typeBars'[b] = [isAnimating |-> TRUE, targetRotation |-> strikeAngle]
               /\ \E i \in ChainTimers(timers', "print", b) :
                    /\ timers'[i].id = Last(typedLog').id
                    /\ timers'[i].rem = strikeDelay]_allVars
\* a strike was started on one bar while the other was on its way back
C25_Witness ==
  /\ Len(typedLog) = 2 /\ typedLog[1].s = "a" /\ typedLog[2].s = "B"
  /\ typeBars["A"] = [isAnimating |-> TRUE, targetRotation |-> restAngle]
  /\ typeBars["B"] = [isAnimating |-> TRUE, targetRotation |-> strikeAngle]

\* C29: keys return to rest.  Once every timer of a key press has run, the
\* key is at the height it had before its first press.
C29_KeysReturn ==
  \A k \in KeyChars :
    ChainTimers(timers, "key", k) = {} => keys[k] = NewScene.keys[k]

\* C30: the state of a type bar is consistent.  In every reachable state
\* the target angle of a bar is the strike angle or the rest angle, and it is
\* the rest angle whenever the bar is not animating.
C30_BarConsistent ==
  \A b \in BarChars :
    /\ typeBars[b].targetRotation \in {strikeAngle, restAngle}
    /\ ~typeBars[b].isAnimating => typeBars[b].targetRotation = restAngle
\* a bar has struck and has been released
C30_Witness ==
  \E b \in BarChars :
    /\ ~typeBars[b].isAnimating
    /\ \E j \in 1..Len(printLog) : toUpperCase[printLog[j].s] = b
    /\ \E o \in BarChars \ {b} : typeBars[o].targetRotation = strikeAngle

\* new is where a value that was at old is after a move toward target that
\* does not pass it
MovedToward(new, old, target) ==
  /\ old <= target => old <= new /\ new <= target
  /\ old >= target => target <= new /\ new <= old
  /\ old # target => new # old

\* the scene without what only the render loop reads
Logical(sc) ==
  [sc EXCEPT !.currentRotation = NewScene.currentRotation, !.carriageCurrentX = 0]

\* C26: the render tick is decoupled from the logical state.  A frame of
\* animate() moves the current angle of each bar and the current offset of
\* the carriage toward their targets without passing them, and leaves
\* isAnimating, the target angles, the carriage target, the pen, the paper,
\* the keys and the timers as they were; and what a call or a timer
\* callback does to these is the same whatever the current angles and the
\* current offset are, so the frames that ran do not change what is printed
\* or where.
C26_RenderDecoupled ==
  [][/\ CallStep("animate") =>
          /\ UNCHANGED <<typeBars, keys, timers, paperPosition, carriageTargetX,
                         paper, inkSplatters, printLog, scrolls, typedLog>>
          /\ \A b \in BarChars :
               MovedToward(currentRotation'[b], currentRotation[b],
                           Fine(typeBars[b].targetRotation))
          /\ MovedToward(carriageCurrentX', carriageCurrentX, Fine(carriageTargetX))
     /\ CallStep("typeCharacter") =>
          \E char \in TypedChars :
            Logical(Scene') = Logical(typeCharacter(Logical(Scene), char, Len(typedLog) + 1))
     /\ CallStep("backspace") => Logical(Scene') = Logical(backspace(Logical(Scene)))
     /\ CallStep("newline") => Logical(Scene') = Logical(newline(Logical(Scene)))
     /\ CallStep("reset") => Logical(Scene') = Logical(reset(Logical(Scene)))
     /\ (sceneOp' = sceneOp /\ (Len(timers') # Len(timers) \/ printLog' # printLog)) =>
          \E i \in 1..Len(timers) :
            /\ MayRun(timers, i)
            /\ Logical(Scene') =
                 Logical(TimerCallback([Logical(Scene) EXCEPT
                                          !.timers = WithoutTimer(timers, i)],
                                       timers[i]))]_allVars
\* frames ran while a bar was striking and the carriage was moving, between
\* the call and the print: the bar is part of the way to the strike angle,
\* the carriage part of the way to its target, and the character is printed
C26_Witness ==
  /\ sceneOp.name = "animate"
  /\ printLog # <<>>
  /\ carriageTargetX < 0
  /\ Fine(carriageTargetX) < carriageCurrentX /\ carriageCurrentX < 0
  /\ \E b \in BarChars :
       /\ Fine(strikeAngle) < currentRotation[b]
       /\ currentRotation[b] < Fine(restAngle)

\* C27: resize coalescing.  A burst of resize events has had no reposition
\* while its timer is pending and exactly one when it is not: the debounced
\* reposition runs once for each burst, when the full wait has passed with
\* no resize event; it draws every character of the document again and
\* leaves the document and the cursor as they were, as the events do.
C27_ResizeCoalesced ==
  /\ [](IF resizeTimer.def THEN repositions + 1 = bursts ELSE repositions = bursts)
  /\ [][/\ repositions' # repositions =>
             /\ repositions' = repositions + 1
             /\ sinceResize = debounceWait
             /\ redrawn' = chars
             /\ chars' = chars /\ cursor' = cursor
        /\ resizes' # resizes =>
             repositions' = repositions /\ chars' = chars /\ cursor' = cursor]_allVars
\* a burst of three events, then one reposition that drew a document of two
\* characters
C27_Witness ==
  /\ resizes = 3 /\ bursts = 1 /\ repositions = 1
  /\ ~resizeTimer.def
  /\ Len(chars) = 2 /\ redrawn = chars

\* C28: read-only operations leave the document alone.  handleNewline(),
\* redraw(), reposition() and export() leave the document sequence as it
\* was, and export() returns the string the export() before it returned
\* when no addCharacter, reset or import was called in between.
C28_ReadOnly ==
  [][op'.name \in {"handleNewline", "redraw", "reposition", "export"} =>
       /\ chars' = chars
       /\ (op'.name = "export" /\ lastExport.def) =>
            lastExport'.v.text = lastExport.v.text]_allVars
\* export() was called on a document of two characters, then one of the
\* other read-only operations, then export() again
C28_Witness ==
  /\ op.name = "export"
  /\ lastExport = Some([text |-> Export(chars), again |-> TRUE])
  /\ Len(chars) = 2
  /\ cursor.y > OriginY

\* C31: the ink mark belongs to the character just struck.  The position
\* recorded in inkSplatters for a strike is the position at which the
\* character of that strike was printed.
C31_InkMarkAtCharacter ==
  [][Len(inkSplatters') = Len(inkSplatters) + 1 =>
       /\ PrintStep
       /\ Last(inkSplatters').character = Last(printLog').s
       /\ Last(inkSplatters').x = Last(printLog').x
       /\ Last(inkSplatters').y = Last(printLog').y]_allVars

\* a step in which an event is dispatched, and the event
EventStep == Len(eventLog') = Len(eventLog) + 1
ThisEvent == Last(eventLog')

\* C32: the app starts at most once.  As long as no start has thrown,
\* app.start() has been called at most once, however many events came.
C32_StartsOnce ==
  (\A i \in 1..Len(eventLog) : eventLog[i].result \in {"none", "started"})
    => appStarts <= 1
\* the app was started by the first of three events
C32_Witness ==
  /\ Len(eventLog) = 3
  /\ eventLog[1].result = "started"
  /\ ~eventLog[2].modifier /\ ~eventLog[3].modifier
  /\ appStarts = 1

\* C33: a failed start can be retried.  After a start that threw,
\* appStarted is false, and a later click or key press on the splash or
\* the document, with no modifier key, runs startApp up to new App() again.
C33_RetryAfterFailure ==
  /\ []((Len(eventLog) > 0 /\ Last(eventLog).result \in StartOutcomes \ {"started"})
          => ~appStarted)
  /\ [][(/\ EventStep
          /\ \E i \in 1..Len(eventLog) : eventLog[i].result \in StartOutcomes \ {"started"}
          /\ ~appStarted
          /\ ~ThisEvent.modifier
          /\ ThisEvent.type \in {"click", "keydown"})
        => attempts' = attempts + 1]_allVars

\* C34: an event with Alt, Ctrl or Meta held never starts the app.  It
\* leaves appStarted, the class of the splash and the listeners as they
\* were, and calls nothing; so an event with no modifier key that has a
\* listener then still runs startApp up to new App(), and starts the app when
\* nothing throws.
C34_ModifierIgnored ==
  [][EventStep =>
       IF ThisEvent.modifier
       THEN UNCHANGED <<appStarted, splashHide, listeners, attempts, appStarts>>
       ELSE (/\ ~appStarted
             /\ [target |-> ThisEvent.target, type |-> ThisEvent.type] \in listeners)
            => /\ attempts' = attempts + 1
               /\ ThisEvent.result = "started" => appStarted' /\ appStarts' = appStarts + 1
     ]_allVars
\* a key came with a modifier key held, then one without, which started the app
C34_Witness ==
  /\ Len(eventLog) = 2
  /\ eventLog[1].type = "keydown" /\ eventLog[1].modifier /\ eventLog[1].result = "none"
  /\ eventLog[2].type = "keydown" /\ ~eventLog[2].modifier
  /\ eventLog[2].result = "started"
  /\ appStarted /\ splashHide

\* a step of the menu, by the name of its callback
MenuStep(name) == menuOp'.name = name

\* how many of the recorded calls of Storage are of this function
CallsOf(calls, fn) == Cardinality({i \in 1..Len(calls) : calls[i].fn = fn})

\* C35 as stated: Save creates a storage entry exactly when no writing is
\* loaded.  With lastLoadedId empty Save calls Storage.create once; with a
\* writing loaded it creates nothing and, submitted with a name, updates the
\* writing of that entry; New clears lastLoadedId.
C35_SaveCreates ==
  [][/\ MenuStep("save") =>
          /\ CallsOf(storageCalls', "create") = (IF lastLoadedId = NoId THEN 1 ELSE 0)
          /\ lastLoadedId # NoId => storage' = storage
     /\ (MenuStep("submit") /\ menuOp'.input # <<"">> /\ lastLoadedId # NoId) =>
          /\ CallsOf(storageCalls', "create") = 0
          /\ \E i \in 1..Len(storageCalls') :
               storageCalls'[i] = StorageCall("updateWriting", lastLoadedId)
          /\ lastLoadedId \in DOMAIN storage =>
               storage'[lastLoadedId].writing = dialog.v.exported
     /\ MenuStep("new") => lastLoadedId' = NoId]_allVars

\* C35, amended: Save of a document that is not empty creates a storage
\* entry exactly when no writing is loaded, and Save of an empty document
\* creates none.  With lastLoadedId empty Save of a document that is not
\* empty calls Storage.create once; with a writing loaded it creates nothing
\* and, submitted with a name, updates the writing of that entry; New clears
\* lastLoadedId.
C35_SaveCreatesUnlessEmpty ==
  [][/\ MenuStep("save") =>
          /\ CallsOf(storageCalls', "create")
               = (IF lastLoadedId = NoId /\ chars # <<>> THEN 1 ELSE 0)
          /\ lastLoadedId # NoId => storage' = storage
     /\ (MenuStep("submit") /\ menuOp'.input # <<"">> /\ lastLoadedId # NoId) =>
          /\ CallsOf(storageCalls', "create") = 0
          /\ \E i \in 1..Len(storageCalls') :
               storageCalls'[i] = StorageCall("updateWriting", lastLoadedId)
          /\ lastLoadedId \in DOMAIN storage =>
               storage'[lastLoadedId].writing = dialog.v.exported
     /\ MenuStep("new") => lastLoadedId' = NoId]_allVars
\* a writing was loaded, other text was pasted over it, and Save with a name
\* has put the new text in the entry loaded
C35_Witness ==
  /\ menuOp.name = "submit"
  /\ lastLoadedId \in DOMAIN storage
  /\ storageCalls[1] = StorageCall("updateWriting", lastLoadedId)
  /\ storage[lastLoadedId].writing = Export(chars)
  /\ created = 1
  /\ Len(chars) = 1

\* C36: saving never leaves an unwanted entry.  Save of an empty document
\* creates no entry and opens no dialog; cancelling the Save dialog of a
\* writing that Save created deletes it, so that the storage holds what it
\* held before Save; cancelling for a loaded writing deletes nothing.
C36_NoUnwantedEntry ==
  [][/\ (MenuStep("save") /\ chars = <<>>) =>
          storage' = storage /\ storageCalls' = <<>> /\ ~dialog'.def
     /\ (MenuStep("cancel") /\ dialog.v.isNew) =>
          /\ storage' = dialog.v.before
          /\ dialog.v.id \notin DOMAIN storage'
     /\ (MenuStep("cancel") /\ ~dialog.v.isNew) =>
          storage' = storage /\ storageCalls' = <<>>]_allVars
\* the Save dialog of a new writing was cancelled while another writing was
\* stored: that one is still there, the new one is not
C36_Witness ==
  /\ menuOp.name = "cancel"
  /\ storageCalls = <<StorageCall("deleteById", menuOp.key)>>
  /\ created = 2
  /\ DOMAIN storage = {1}

\* C37: lastLoadedId never names a deleted entry.  The id of the writing
\* loaded is that of a stored entry, and Save never calls
\* Storage.updateWriting or Storage.update with an id that is not stored.
C37_LoadedIdIsStored ==
  /\ [](lastLoadedId # NoId => lastLoadedId \in DOMAIN storage)
  /\ [][MenuStep("submit") =>
          \A i \in 1..Len(storageCalls') :
            storageCalls'[i].fn \in {"updateWriting", "update"}
              => storageCalls'[i].id \in DOMAIN storage]_allVars

\* the line breaks of a text, CR LF counting as one
RECURSIVE Breaks(_)
Breaks(content) ==
  IF content = <<>> THEN 0
  ELSE IF Len(content) >= 2 /\ content[1] = "\r" /\ content[2] = "\n"
       THEN 1 + Breaks(Tail(Tail(content)))
       ELSE (IF Head(content) \in {"\r", "\n"} THEN 1 ELSE 0) + Breaks(Tail(content))

\* the characters of a text that are not line breaks
Printable(content) == SelectSeq(content, LAMBDA c : c \notin {"\r", "\n"})

\* C38: Paste Text replaces the document and types one line per line of
\* input.  After pasting a text with N line breaks the document holds the
\* characters of the text, in order, and nothing else, and handleNewline
\* has run N + 1 times since the reset: the cursor is N + 1 lines below
\* the origin.
C38_PasteLines ==
  [][MenuStep("paste") =>
       LET content == menuOp'.input IN
       /\ Len(chars') = Len(Printable(content))
       /\ \A i \in 1..Len(chars') : chars'[i].s = <<Printable(content)[i]>>
       /\ cursor'.y = OriginY + (Breaks(content) + 1) * LineHeight]_allVars

====
